---- MODULE Spec2Model ----
(***************************************************************************)
(* ERSA: estimation of recent shared ancestry.                             *)
(*                                                                         *)
(* A model of the relationship labeller (ersa_LL.potential_relationship),  *)
(* the degree search and significance test (ersa_LL.estimate_relation,     *)
(* chisquare), the output records built from an Estimate (ersa.py,         *)
(* dbmanager.py) and the segment preprocessing (parser.merge_segments,     *)
(* mask.mask_input_segs).                                                  *)
(*                                                                         *)
(* Units.  Segment lengths are Python floats, modelled bit for bit (see    *)
(* below); a match file gives them with two decimals, so the text of a     *)
(* length is an integer number of hundredths of a centiMorgan.             *)
(* Log-likelihoods are in whole nats and probabilities in 1/10000.         *)
(* Python's None is the empty tuple <<>>, and a value that may be None is  *)
(* a one-element tuple <<v>> when present.                                 *)
(***************************************************************************)
EXTENDS Integers, Sequences, FiniteSets, TLC

VARIABLES
    lab,        \* arguments of the potential_relationship calls: [d, y1, y2]
    fwd,        \* result of potential_relationship(d, A, B, yA, yB)
    rev,        \* result of potential_relationship(d, B, A, yB, yA)
    segs,       \* a segment list (seg_list), a sequence of SharedSegment
    t,          \* the minimum segment length in cM, a float
    prevSegs,   \* the list handed to the last merge_segments or mask_input_segs
    ops,        \* the calls of the two made so far: [name, merge_len]
    h0,         \* the Background calculator: [t]
    dob,        \* the birth years handed to estimate_relation: (None, None)
    max_d,      \* the largest d tested
    ci,         \* whether a confidence interval is asked for
    null_LL,    \* what h0.LL(n, s) returns for this pair
    mll,        \* what ha.MLL(n, s, d) returns for this pair: d -> [np, LL]
    alpha,      \* the significance level of the last estimate_relation call
    outcome,    \* how the last call ended: [status, exc]
    est,        \* the Estimate the last call returned
    prev,       \* the call before the last: None or <<[alpha, outcome, est]>>
    line,       \* the dictionary estimates_to_dicts built from est
    db,         \* Database.insert of est: [rows, exc]
    ha,         \* the Relation calculator, once constructed, and the r and
                \* nomask it was constructed with: <<Relation, [r, nomask]>>
    llr,        \* what ha._LLr(np, n - np, s, d) returns for this pair: d -> np + 1 -> LL
    call,       \* the last call of a library function: <<[name, args, result]>>
    pair_dict,  \* the pairs of a run and their segment lists: pair -> seg_list
    runs,       \* the estimate_relation calls of the run, in the order they
                \* were made, each with its arguments, its position and its
                \* local variables: [pair, s, pc, null_LL, d, alts, result]
    like,       \* what h0.LL(n, s) and ha.MLL(n, s, d) return for each list
                \* of the run: s -> [null_LL, mll]
    stored,     \* the tables of the database as committed
    conn,       \* Database.conn: "none", "open" or "closed"
    trans,      \* Database.trans: "none", "active", "committed", "rolled back"
    tables,     \* the tables as the open connection sees them
    body        \* the calls made inside the with block, and the last of them:
                \* [calls, last, args, ret, exc]

labVars == <<lab, fwd, rev>>
segVars == <<t, prevSegs, ops>>
inVars == <<segs, h0, dob, max_d, ci, null_LL, mll>>
estVars == <<alpha, outcome, est, prev, line, db>>
relVars == <<ha, llr, call>>
pipeVars == <<pair_dict, runs, like>>
dbVars == <<stored, conn, trans, tables, body>>
vars == <<lab, fwd, rev, segs, t, prevSegs, ops, h0, dob, max_d, ci, null_LL, mll,
          alpha, outcome, est, prev, line, db, ha, llr, call,
          pair_dict, runs, like, stored, conn, trans, tables, body>>

None == <<>>
Some(v) == <<v>>
Pending == <<"pending">>

\* how a call ended: with a value, or with an exception raised at a place
Returned(v) == [exc |-> "", at |-> "", val |-> v]
Raised(e, where) == [exc |-> e, at |-> where, val |-> None]

----------------------------------------------------------------------------
(* Python's float: IEEE-754 binary64, every operation rounded to the       *)
(* nearest float, a tie to the one with an even mantissa.  A float is       *)
(* [neg, m, e] for (-1)^neg * m * 2^e with m = 0 or 2^52 <= m < 2^53.  The  *)
(* mantissa does not fit TLC's integers: it is a natural number in limbs    *)
(* of 15 bits, least significant first, without leading zero limbs.         *)
(* Lengths stay far from the ends of the exponent range, so overflow and    *)
(* subnormal numbers do not arise.                                          *)

\* sys.float_info.mant_dig
MantDig == 53

Base == 2^15

RECURSIVE BitLenInt(_)
BitLenInt(n) == IF n = 0 THEN 0 ELSE 1 + BitLenInt(n \div 2)

LimbBits == BitLenInt(Base) - 1

Limb(a, i) == IF i <= Len(a) THEN a[i] ELSE 0

RECURSIVE BigTrim(_)
BigTrim(a) ==
    IF a = <<>> THEN a
    ELSE IF a[Len(a)] = 0 THEN BigTrim(SubSeq(a, 1, Len(a) - 1))
    ELSE a

RECURSIVE BigOfInt(_)
BigOfInt(n) == IF n = 0 THEN <<>> ELSE <<n % Base>> \o BigOfInt(n \div Base)

\* the value of a, for an a below 2^31
RECURSIVE BigToInt(_)
BigToInt(a) == IF a = <<>> THEN 0 ELSE a[1] + Base * BigToInt(Tail(a))

RECURSIVE BigAddLoop(_, _, _, _, _)
BigAddLoop(a, c, i, carry, acc) ==
    IF i > Len(a) /\ i > Len(c)
    THEN IF carry = 0 THEN acc ELSE Append(acc, carry)
    ELSE LET x == Limb(a, i) + Limb(c, i) + carry
         IN BigAddLoop(a, c, i + 1, x \div Base, Append(acc, x % Base))

BigAdd(a, c) == BigAddLoop(a, c, 1, 0, <<>>)

\* a - c, for a >= c
RECURSIVE BigSubLoop(_, _, _, _, _)
BigSubLoop(a, c, i, borrow, acc) ==
    IF i > Len(a) THEN BigTrim(acc)
    ELSE LET x == a[i] - Limb(c, i) - borrow
         IN BigSubLoop(a, c, i + 1, IF x < 0 THEN 1 ELSE 0,
                       Append(acc, IF x < 0 THEN x + Base ELSE x))

BigSub(a, c) == BigSubLoop(a, c, 1, 0, <<>>)

\* -1, 0 or 1 as a is below, equal to or above c
RECURSIVE BigCmpFrom(_, _, _)
BigCmpFrom(a, c, i) ==
    IF i = 0 THEN 0
    ELSE IF a[i] < c[i] THEN -1
    ELSE IF a[i] > c[i] THEN 1
    ELSE BigCmpFrom(a, c, i - 1)

BigCmp(a, c) ==
    IF Len(a) < Len(c) THEN -1
    ELSE IF Len(a) > Len(c) THEN 1
    ELSE BigCmpFrom(a, c, Len(a))

\* a * k, for a limb k
RECURSIVE BigMulLimbLoop(_, _, _, _, _)
BigMulLimbLoop(a, k, i, carry, acc) ==
    IF i > Len(a) THEN (IF carry = 0 THEN acc ELSE Append(acc, carry))
    ELSE LET x == a[i] * k + carry
         IN BigMulLimbLoop(a, k, i + 1, x \div Base, Append(acc, x % Base))

BigMulLimb(a, k) == IF k = 0 THEN <<>> ELSE BigMulLimbLoop(a, k, 1, 0, <<>>)

Zeros(n) == [i \in 1..n |-> 0]

\* a * Base^n
BigShlLimbs(a, n) == IF a = <<>> THEN a ELSE Zeros(n) \o a

RECURSIVE BigMulLoop(_, _, _, _)
BigMulLoop(a, c, j, acc) ==
    IF j > Len(c) THEN acc
    ELSE BigMulLoop(a, c, j + 1,
                    BigAdd(acc, BigShlLimbs(BigMulLimb(a, c[j]), j - 1)))

BigMul(a, c) == BigMulLoop(a, c, 1, <<>>)

\* a * 2^n
BigShl(a, n) == BigShlLimbs(BigMulLimb(a, 2^(n % LimbBits)), n \div LimbBits)

\* a \div k, for a limb k > 0: short division from the top limb down
RECURSIVE BigDivLimbLoop(_, _, _, _, _)
BigDivLimbLoop(a, k, i, rem, acc) ==
    IF i = 0 THEN BigTrim(acc)
    ELSE LET x == rem * Base + a[i]
         IN BigDivLimbLoop(a, k, i - 1, x % k, <<x \div k>> \o acc)

\* a \div 2^n
BigShr(a, n) ==
    LET k == n \div LimbBits
        hi == IF k >= Len(a) THEN <<>> ELSE SubSeq(a, k + 1, Len(a))
    IN BigDivLimbLoop(hi, 2^(n % LimbBits), Len(hi), 0, <<>>)

BigBitLen(a) ==
    IF a = <<>> THEN 0 ELSE (Len(a) - 1) * LimbBits + BitLenInt(a[Len(a)])

BigOdd(a) == a # <<>> /\ a[1] % 2 = 1

FloatZero == [neg |-> FALSE, m |-> <<>>, e |-> 0]

\* the float nearest to (-1)^neg * (N + x) * 2^e, where 0 < x < 1 if sticky
\* and x = 0 otherwise; N has more than MantDig bits when sticky
FloatRound(neg, N, e, sticky) ==
    LET len == BigBitLen(N)
    IN IF N = <<>> THEN FloatZero
       ELSE IF len <= MantDig
       THEN [neg |-> neg, m |-> BigShl(N, MantDig - len), e |-> e - (MantDig - len)]
       ELSE LET n == len - MantDig
                q == BigShr(N, n)
                r == BigSub(N, BigShl(q, n))
                c == BigCmp(r, BigShl(<<1>>, n - 1))
                up == c > 0 \/ (c = 0 /\ (sticky \/ BigOdd(q)))
                q2 == IF up THEN BigAdd(q, <<1>>) ELSE q
            IN IF BigBitLen(q2) > MantDig
               THEN [neg |-> neg, m |-> BigShr(q2, 1), e |-> e + n + 1]
               ELSE [neg |-> neg, m |-> q2, e |-> e + n]

FloatNeg(x) == IF x.m = <<>> THEN x ELSE [x EXCEPT !.neg = ~x.neg]

\* x + y
FloatAdd(x, y) ==
    IF x.m = <<>> THEN y
    ELSE IF y.m = <<>> THEN x
    ELSE LET e == IF x.e < y.e THEN x.e ELSE y.e
             X == BigShl(x.m, x.e - e)
             Y == BigShl(y.m, y.e - e)
             c == BigCmp(X, Y)
         IN IF x.neg = y.neg THEN FloatRound(x.neg, BigAdd(X, Y), e, FALSE)
            ELSE IF c = 0 THEN FloatZero
            ELSE IF c > 0 THEN FloatRound(x.neg, BigSub(X, Y), e, FALSE)
            ELSE FloatRound(y.neg, BigSub(Y, X), e, FALSE)

\* x - y
FloatSub(x, y) == FloatAdd(x, FloatNeg(y))

\* x * y
FloatMul(x, y) ==
    FloatRound(x.neg # y.neg, BigMul(x.m, y.m), x.e + y.e, FALSE)

\* -1, 0 or 1 as |x| is below, equal to or above |y|: mantissas of one
\* length, so the exponent decides first
FloatMagCmp(x, y) ==
    IF x.m = <<>> THEN (IF y.m = <<>> THEN 0 ELSE -1)
    ELSE IF y.m = <<>> THEN 1
    ELSE IF x.e < y.e THEN -1
    ELSE IF x.e > y.e THEN 1
    ELSE BigCmp(x.m, y.m)

FloatCmp(x, y) ==
    IF x.neg # y.neg THEN (IF x.neg THEN -1 ELSE 1)
    ELSE IF x.neg THEN 0 - FloatMagCmp(x, y)
    ELSE FloatMagCmp(x, y)

\* x <= y and x >= y
FloatLe(x, y) == FloatCmp(x, y) <= 0
FloatGe(x, y) == FloatCmp(x, y) >= 0

\* the next LimbBits bits of rem / den after the binary point: <<limb, rem>>
RECURSIVE FracLimb(_, _, _, _)
FracLimb(rem, den, k, limb) ==
    IF k = 0 THEN <<limb, rem>>
    ELSE IF 2 * rem >= den THEN FracLimb(2 * rem - den, den, k - 1, 2 * limb + 1)
    ELSE FracLimb(2 * rem, den, k - 1, 2 * limb)

\* n fractional limbs of rem / den, least significant first: <<limbs, rem>>
RECURSIVE FracLimbs(_, _, _, _)
FracLimbs(rem, den, n, limbs) ==
    IF n = 0 THEN <<limbs, rem>>
    ELSE LET f == FracLimb(rem, den, LimbBits, 0)
         IN FracLimbs(f[2], den, n - 1, <<f[1]>> \o limbs)

\* num / den for integers num >= 0 and 0 < den < 2^30: the nearest float to
\* the quotient, from its first 6 * LimbBits bits after the binary point
IntTrueDiv(num, den) ==
    LET f == FracLimbs(num % den, den, 6, <<>>)
    IN FloatRound(FALSE, BigTrim(f[1] \o BigOfInt(num \div den)),
                  0 - 6 * LimbBits, f[2] # 0)

\* float("c.cc"): the float nearest to centi / 100
FloatOfCenti(centi) == IntTrueDiv(centi, 100)

\* round(x, 2): x to the nearest hundredth, a tie to the even one, and the
\* float nearest to that
FloatRound2(x) ==
    IF x.m = <<>> \/ x.e >= 0 THEN x
    ELSE LET N == BigMulLimb(x.m, 100)
             n == 0 - x.e
             q == BigShr(N, n)
             r == BigSub(N, BigShl(q, n))
             c == BigCmp(r, BigShl(<<1>>, n - 1))
             k == IF c > 0 \/ (c = 0 /\ BigOdd(q)) THEN BigAdd(q, <<1>>) ELSE q
             v == FloatOfCenti(BigToInt(k))
         IN IF x.neg THEN FloatNeg(v) ELSE v

\* sum(s): 0 + s[0] + s[1] + ..., from the left
RECURSIVE FloatSumFrom(_, _, _)
FloatSumFrom(s, i, acc) ==
    IF i > Len(s) THEN acc ELSE FloatSumFrom(s, i + 1, FloatAdd(acc, s[i]))

FloatSum(s) == FloatSumFrom(s, 1, FloatZero)

\* float(n) for an integer n >= 0
FloatOfInt(n) == IntTrueDiv(n, 1)

\* the remainder of a \div k, for a limb k > 0
RECURSIVE BigModLimb(_, _, _, _)
BigModLimb(a, k, i, rem) ==
    IF i = 0 THEN rem ELSE BigModLimb(a, k, i - 1, (rem * Base + a[i]) % k)

\* x / k for an integer 0 < k < Base: the quotient of the mantissa, carried
\* two limbs further, and whether anything is left beyond it
FloatDivInt(x, k) ==
    LET N == BigShlLimbs(x.m, 2)
    IN FloatRound(x.neg, BigDivLimbLoop(N, k, Len(N), 0, <<>>),
                  x.e - 2 * LimbBits, BigModLimb(N, k, Len(N), 0) # 0)

\* x / 2 ** n: exact
FloatDivPow2(x, n) == IF x.m = <<>> THEN x ELSE [x EXCEPT !.e = x.e - n]

----------------------------------------------------------------------------
(* Bounds of the model *)

\* largest d handed to potential_relationship (the table ends at RelMapDmax)
MaxLabelD == 22

\* birth years handed to the labeller
Years == {1950, 1965, 1980, 1981, 2010, 2030}

----------------------------------------------------------------------------
(* ersa_LL.py: the relationship table *)

RelMapDmax == 20
YrPerGen == 30

Suffixes == [i \in {1, 2, 3} |-> CASE i = 1 -> "st" [] i = 2 -> "nd" [] OTHER -> "rd"]

_n_to_ord(n) ==
    LET i == IF n < 20 THEN n ELSE n % 10
        suffix == IF i \in DOMAIN Suffixes THEN Suffixes[i] ELSE "th"
    IN ToString(n) \o suffix

\* inflect's number_to_words for 1..20, capitalized, with the three exceptions
NumberWords == <<"Once", "Twice", "Thrice", "Four", "Five", "Six", "Seven",
                 "Eight", "Nine", "Ten", "Eleven", "Twelve", "Thirteen",
                 "Fourteen", "Fifteen", "Sixteen", "Seventeen", "Eighteen",
                 "Nineteen", "Twenty">>

_n_to_w(n) == NumberWords[n]

\* the pair (name, name2) the loop body computes for bucket i of degree d
RelNames(d, i) ==
    IF i = d
    THEN LET name == _n_to_ord(i - 2) \o " Great Grand"
         IN <<name \o "parent", name \o "child">>
    ELSE IF i = d - 2
    THEN LET name == (IF i - 2 > 1 THEN _n_to_ord(i - 2) \o " " ELSE "")
                     \o "Great "
                     \o (IF i - 2 > 0 THEN "Grand " ELSE "")
         IN <<name \o "Aunt/Uncle", name \o "Niece/Nephew">>
    ELSE LET name == _n_to_ord(d \div 2 - 1 - i \div 2) \o " Cousin "
                     \o _n_to_w(i) \o " "
                     \o (IF i > 3 THEN "Times" ELSE "")
                     \o "Removed"
         IN <<name, name>>

\* the keys of rel_map[d] for d >= 4: 0 for even d, and -i, i for i = k, k+2, .., d
GenBins(d) ==
    LET k == IF d % 2 = 1 THEN 1 ELSE 2
        steps == {i \in k..d : (i - k) % 2 = 0}
    IN (IF d % 2 = 1 THEN {} ELSE {0}) \cup steps \cup {-i : i \in steps}

_build_rel_map(dmax) ==
    [d \in 0..dmax |->
        CASE d = 0 -> [g \in {0} |-> "Identical Twins or Duplication"]
          [] d = 1 -> [g \in {-1, 1} |-> IF g = -1 THEN "Parent" ELSE "Child"]
          [] d = 2 -> [g \in {-2, 0, 2} |->
                         CASE g = -2 -> "Grandparent"
                           [] g = 0 -> "Sibling"
                           [] OTHER -> "Grandchild"]
          [] d = 3 -> [g \in {-3, -1, 1, 3} |->
                         CASE g = -3 -> "Great Grandparent"
                           [] g = -1 -> "Aunt/Uncle"
                           [] g = 1 -> "Niece/Nephew"
                           [] OTHER -> "Great Grandchild"]
          [] OTHER -> [g \in GenBins(d) |->
                         IF g = 0 THEN _n_to_ord(d \div 2 - 1) \o " Cousin"
                         ELSE IF g < 0 THEN RelNames(d, -g)[1]
                         ELSE RelNames(d, g)[2]]]

rel_map == _build_rel_map(RelMapDmax)

\* (delta + yr_per_gen / 2) // yr_per_gen: a floor division
GenBin(d_est, dob1, dob2) ==
    IF d_est = 0 THEN 0 ELSE ((dob2 - dob1) + YrPerGen \div 2) \div YrPerGen

\* the labeller with the remainder of a truncating division, which is -1 for
\* a negative odd bucket
potential_relationship_truncating(d_est, indv1, indv2, dob1, dob2) ==
    LET gen_bin == GenBin(d_est, dob1, dob2)
    IN IF d_est \notin DOMAIN rel_map THEN None
       ELSE IF gen_bin \notin DOMAIN rel_map[d_est] THEN None
       ELSE LET bin_map == rel_map[d_est]
            IN IF gen_bin > 0 /\ gen_bin % 2 = 1 /\ d_est < 5
               THEN LET ret == bin_map[gen_bin] \o " or " \o bin_map[-gen_bin]
                    IN <<ret, ret>>
               ELSE <<bin_map[gen_bin], bin_map[-gen_bin]>>

potential_relationship(d_est, indv1, indv2, dob1, dob2) ==
    LET gen_bin == GenBin(d_est, dob1, dob2)
    IN IF d_est \notin DOMAIN rel_map THEN None
       ELSE IF gen_bin \notin DOMAIN rel_map[d_est] THEN None
       ELSE LET bin_map == rel_map[d_est]
            IN IF gen_bin % 2 = 1 /\ d_est < 5
               THEN LET ret == bin_map[gen_bin] \o " or " \o bin_map[-gen_bin]
                    IN <<ret, ret>>
               ELSE <<bin_map[gen_bin], bin_map[-gen_bin]>>

----------------------------------------------------------------------------
(* parser.py: SharedSegment, as far as the estimator reads it *)

\* SharedSegment(param_list): int() of the coordinates, float() of the length,
\* whose text gives centi hundredths of a cM
SharedSegment(chrom, bpStart, bpEnd, centi) ==
    [chrom |-> chrom, bpStart |-> bpStart, bpEnd |-> bpEnd,
     length |-> FloatOfCenti(centi)]

\* s = [seg.length for seg in seg_list]
Lengths(seg_list) == [i \in 1..Len(seg_list) |-> seg_list[i].length]

----------------------------------------------------------------------------
(* parser.py: merge_segments *)

\* the chromosomes of segs in the order s_by_chrom first sees them
RECURSIVE ChromOrder(_, _)
ChromOrder(seg_list, seen) ==
    IF seg_list = <<>> THEN seen
    ELSE ChromOrder(Tail(seg_list),
                    IF \E i \in 1..Len(seen) : seen[i] = seg_list[1].chrom
                    THEN seen ELSE Append(seen, seg_list[1].chrom))

OnChrom(seg_list, c) == SelectSeq(seg_list, LAMBDA x : x.chrom = c)

\* s_list.sort(key=lambda x: x.bpStart): a stable sort
RECURSIVE InsertByStart(_, _)
InsertByStart(x, sorted) ==
    IF sorted = <<>> THEN <<x>>
    ELSE IF x.bpStart < sorted[1].bpStart THEN <<x>> \o sorted
    ELSE <<sorted[1]>> \o InsertByStart(x, Tail(sorted))

RECURSIVE SortByStart(_, _)
SortByStart(seg_list, sorted) ==
    IF seg_list = <<>> THEN sorted
    ELSE SortByStart(Tail(seg_list), InsertByStart(seg_list[1], sorted))

\* diffs[i] > merge_len; diffs ends with maxsize, and merge_len < maxsize
DiffAbove(s_list, i, merge_len) ==
    IF i = Len(s_list) THEN TRUE
    ELSE s_list[i + 1].bpStart - s_list[i].bpEnd > merge_len

\* a merge that extends the end coordinate and forgets to add the length
MergeIntoKeepLength(new, nxt) == [new EXCEPT !.bpEnd = nxt.bpEnd]

\* new.bpEnd = s_list[i + 1].bpEnd; new.length += s_list[i + 1].length
MergeInto(new, nxt) ==
    [new EXCEPT !.bpEnd = nxt.bpEnd, !.length = FloatAdd(new.length, nxt.length)]

\* the scan of one chromosome's sorted list; new is None or <<segment>>
RECURSIVE MergeScan(_, _, _, _, _)
MergeScan(s_list, merge_len, i, new, new_segs) ==
    IF i > Len(s_list) THEN new_segs
    ELSE IF new # None
    THEN IF DiffAbove(s_list, i, merge_len)
         THEN MergeScan(s_list, merge_len, i + 1, None, Append(new_segs, new[1]))
         ELSE MergeScan(s_list, merge_len, i + 1,
                        Some(MergeInto(new[1], s_list[i + 1])), new_segs)
    ELSE IF DiffAbove(s_list, i, merge_len)
         THEN MergeScan(s_list, merge_len, i + 1, None, Append(new_segs, s_list[i]))
         ELSE MergeScan(s_list, merge_len, i + 1,
                        Some(MergeInto(s_list[i], s_list[i + 1])), new_segs)

RECURSIVE MergeChroms(_, _, _, _)
MergeChroms(seg_list, chroms, merge_len, new_segs) ==
    IF chroms = <<>> THEN new_segs
    ELSE MergeChroms(seg_list, Tail(chroms), merge_len,
                     MergeScan(SortByStart(OnChrom(seg_list, chroms[1]), <<>>),
                               merge_len, 1, None, new_segs))

merge_segments(seg_list, merge_len) ==
    MergeChroms(seg_list, ChromOrder(seg_list, <<>>), merge_len, <<>>)

----------------------------------------------------------------------------
(* mask.py *)

\* b = 1 * 10 ** 6
b == 1000000

\* masked[chrom]: (low, high, mean masked cM), in append order; the third
\* entry is the float of a literal with two decimals
masked ==
    [c \in 0..22 |->
        CASE c = 1 -> << <<118434520, 153401108, FloatOfCenti(995)>> >>
          [] c = 2 -> << <<85304243, 99558013, FloatOfCenti(653)>>,
                         <<132695025, 141442636, FloatOfCenti(916)>>,
                         <<192352906, 198110229, FloatOfCenti(504)>> >>
          [] c = 8 -> << <<10428647, 13469693, FloatOfCenti(796)>> >>
          [] c = 9 -> << <<38293483, 72605261, FloatOfCenti(815)>> >>
          [] c = 10 -> << <<44555093, 53240188, FloatOfCenti(758)>> >>
          [] c = 15 -> << <<20060673, 25145260, FloatOfCenti(1046)>>,
                          <<27115823, 30295750, FloatOfCenti(929)>> >>
          [] c = 16 -> << <<19393068, 24031556, FloatOfCenti(618)>> >>
          [] c = 17 -> << <<77186666, 78417478, FloatOfCenti(566)>>,
                          <<59518083, 64970531, FloatOfCenti(623)>> >>
          [] c = 21 -> << <<16344186, 19375168, FloatOfCenti(691)>> >>
          [] c = 22 -> << <<16051881, 25095451, FloatOfCenti(2082)>> >>
          [] OTHER -> <<>>]

\* a truncation that scales the length and forgets to round it
ScaleNoRound(length, num, den) == FloatMul(length, IntTrueDiv(num, den))

\* ratio = num / den; s.length *= ratio; s.length = round(s.length, 2)
ScaleRound(length, num, den) ==
    FloatRound2(FloatMul(length, IntTrueDiv(num, den)))

\* the loop over the regions of s.chrom, left at the first region that applies
RECURSIVE MaskSeg(_, _, _)
MaskSeg(s, regions, k) ==
    IF k > Len(regions) THEN s
    ELSE LET l == regions[k][1]
             h == regions[k][2]
             mask_cm == regions[k][3]
         IN IF s.bpStart > l - b /\ s.bpEnd < h + b
            THEN [s EXCEPT !.length = FloatZero]
            ELSE IF s.bpStart <= l - b /\ s.bpEnd >= h + b
            THEN [s EXCEPT !.length = FloatSub(s.length, mask_cm)]
            ELSE IF l <= s.bpStart /\ s.bpStart <= h /\ h < s.bpEnd
            THEN [s EXCEPT !.length = ScaleRound(s.length, s.bpEnd - h,
                                                 s.bpEnd - s.bpStart),
                           !.bpStart = h]
            ELSE IF h >= s.bpEnd /\ s.bpEnd >= l /\ l > s.bpStart
            THEN [s EXCEPT !.length = ScaleRound(s.length, l - s.bpStart,
                                                 s.bpEnd - s.bpStart),
                           !.bpEnd = l]
            ELSE MaskSeg(s, regions, k + 1)

\* regions = masked[s.chrom]: masked is a list of 23 entries, and an index
\* below 0 counts from its end
MaskedRegions(chrom) ==
    masked[IF chrom < 0 THEN chrom + Cardinality(DOMAIN masked) ELSE chrom]

RECURSIVE MaskLoop(_, _, _)
MaskLoop(seg_list, t_, new_segs) ==
    IF seg_list = <<>> THEN new_segs
    ELSE LET s == MaskSeg(seg_list[1], MaskedRegions(seg_list[1].chrom), 1)
         IN MaskLoop(Tail(seg_list), t_,
                     IF FloatGe(s.length, t_) THEN Append(new_segs, s) ELSE new_segs)

mask_input_segs(seg_list, t_) == MaskLoop(seg_list, t_, <<>>)

----------------------------------------------------------------------------
(* parser.py: get_pair_dict.  An identifier is a Python str, modelled as    *)
(* the tuple of its code points, so that the order of two identifiers and   *)
(* the text of a key are those of Python.                                   *)

\* a < b on str: the first code point that differs decides, and a proper
\* prefix is the smaller
RECURSIVE StrLess(_, _)
StrLess(a, c) ==
    IF c = <<>> THEN FALSE
    ELSE IF a = <<>> THEN TRUE
    ELSE IF a[1] # c[1] THEN a[1] < c[1]
    ELSE StrLess(Tail(a), Tail(c))

\* ":"
Colon == <<58>>

\* SharedSegment(split_line) with the identifiers and the unit of the line; a
\* line is [indivID1, indivID2, chrom, bpStart, bpEnd, centi, lengthUnit]
MatchSegment(ln) ==
    SharedSegment(ln.chrom, ln.bpStart, ln.bpEnd, ln.centi)
    @@ [indivID1 |-> ln.indivID1, indivID2 |-> ln.indivID2,
        lengthUnit |-> ln.lengthUnit]

\* read_matchfile(path): one SharedSegment per line
RECURSIVE read_matchfile(_)
read_matchfile(lines) ==
    IF lines = <<>> THEN <<>>
    ELSE <<MatchSegment(lines[1])>> \o read_matchfile(Tail(lines))

\* a key that keeps the two identifiers in the order of the line
PairIdAsRead(seg) == seg.indivID1 \o Colon \o seg.indivID2

\* pair_id = seg.indivID1; if seg.indivID1 < seg.indivID2: pair_id += ":" +
\* seg.indivID2; else: pair_id = seg.indivID2 + ":" + pair_id
PairId(seg) ==
    IF StrLess(seg.indivID1, seg.indivID2)
    THEN seg.indivID1 \o Colon \o seg.indivID2
    ELSE seg.indivID2 \o Colon \o seg.indivID1

\* the first loop of get_pair_dict: the segments of length >= t that involve
\* user, when one is given, collected per pair_id in the order of the file
RECURSIVE CollectPairs(_, _, _, _)
CollectPairs(s_list, t_, user, dict) ==
    IF s_list = <<>> THEN Returned(dict)
    ELSE LET seg == s_list[1]
             pair_id == PairId(seg)
         IN IF seg.lengthUnit # "cM" THEN Raised("AssertionError", "lengthUnit")
            ELSE IF FloatCmp(seg.length, t_) < 0
            THEN CollectPairs(Tail(s_list), t_, user, dict)
            ELSE IF user # <<>> /\ seg.indivID1 # user /\ seg.indivID2 # user
            THEN CollectPairs(Tail(s_list), t_, user, dict)
            ELSE CollectPairs(Tail(s_list), t_, user,
                     IF pair_id \in DOMAIN dict /\ dict[pair_id] # <<>>
                     THEN [dict EXCEPT ![pair_id] = Append(@, seg)]
                     ELSE (pair_id :> <<seg>>) @@ dict)

\* a list left in the order the preprocessing gave it
NoSort(seg_list, sorted) == seg_list

\* segs.sort(): a stable sort by __lt__, which compares the lengths
RECURSIVE InsertByLength(_, _)
InsertByLength(x, sorted) ==
    IF sorted = <<>> THEN <<x>>
    ELSE IF FloatCmp(x.length, sorted[1].length) < 0 THEN <<x>> \o sorted
    ELSE <<sorted[1]>> \o InsertByLength(x, Tail(sorted))

RECURSIVE SortByLength(_, _)
SortByLength(seg_list, sorted) ==
    IF seg_list = <<>> THEN sorted
    ELSE SortByLength(Tail(seg_list), InsertByLength(seg_list[1], sorted))

\* the body of the second loop, for the list of one pair
PreprocessPair(seg_list, t_, nomask, merge_len) ==
    LET merged == IF merge_len > 0 THEN merge_segments(seg_list, merge_len)
                  ELSE seg_list
        kept == IF ~nomask THEN mask_input_segs(merged, t_) ELSE merged
    IN SortByLength(kept, <<>>)

\* masked[s.chrom] of mask_input_segs raises IndexError: s.chrom is no index
\* of the list, neither from its start nor, below 0, from its end
OffTable(seg_list) ==
    \E i \in 1..Len(seg_list) :
        LET chrom == seg_list[i].chrom
        IN chrom >= Cardinality(DOMAIN masked) \/ chrom < -Cardinality(DOMAIN masked)

get_pair_dict(path, t_, user, nomask, merge_len) ==
    LET collected == CollectPairs(read_matchfile(path), t_, user, <<>>)
    IN IF collected.exc # "" THEN collected
       ELSE IF ~nomask /\ \E pair \in DOMAIN collected.val : OffTable(collected.val[pair])
       THEN Raised("IndexError", "mask_input_segs")
       ELSE LET done == [pair \in DOMAIN collected.val |->
                            PreprocessPair(collected.val[pair], t_, nomask, merge_len)]
                remove == {pair \in DOMAIN done : Len(done[pair]) = 0}
            IN Returned([pair \in DOMAIN done \ remove |-> done[pair]])

----------------------------------------------------------------------------
(* chisquare.py *)

\* 1 - chi2.cdf(x, 2) = exp(-x / 2) for x = 0, 1, 2, ..., in 1/10000
Chi2SfTable == <<10000, 6065, 3679, 2231, 1353, 821, 498, 302, 183, 111,
                 67, 41, 25, 15, 9, 6, 3, 2, 1, 1>>

\* scipy's chi2.cdf(x, df) for df = 2, in 1/10000; 0 left of the support
chi2_cdf(x, df) ==
    IF x < 0 THEN 0
    ELSE IF x + 1 \in DOMAIN Chi2SfTable THEN 10000 - Chi2SfTable[x + 1]
    ELSE 10000

\* the statistic turned round: null minus alternative
LL_ratio_p_reversed(LLr, LLn) ==
    LET ratio == 2 * LLn - 2 * LLr
    IN 10000 - chi2_cdf(ratio, 2)

LL_ratio_p(LLr, LLn) ==
    LET ratio == -2 * LLn + 2 * LLr
    IN 10000 - chi2_cdf(ratio, 2)

LL_ratio_test(LLr, LLn, alpha_) == LL_ratio_p(LLr, LLn) < alpha_

\* a loop body that moves lower_d down and never upper_d up
CIStepLowerOnly(alt, lu, max_alt_LL, alpha_) ==
    IF ~LL_ratio_test(max_alt_LL, alt[3], alpha_)
    THEN LET d == alt[1]
         IN IF lu[1] = None \/ lu[1] = Some(0) THEN <<Some(d), Some(d)>>
            ELSE IF d < lu[1][1] THEN <<Some(d), lu[2]>>
            ELSE lu
    ELSE lu

\* one pass of the loop body of likelihood_ratio_CI; lu = <<lower_d, upper_d>>
CIStep(alt, lu, max_alt_LL, alpha_) ==
    IF ~LL_ratio_test(max_alt_LL, alt[3], alpha_)
    THEN LET d == alt[1]
         IN IF lu[1] = None \/ lu[1] = Some(0) THEN <<Some(d), Some(d)>>
            ELSE IF d < lu[1][1] THEN <<Some(d), lu[2]>>
            ELSE IF d > lu[2][1] THEN <<lu[1], Some(d)>>
            ELSE lu
    ELSE lu

RECURSIVE CILoop(_, _, _, _, _)
CILoop(alts, i, lu, max_alt_LL, alpha_) ==
    IF i > Len(alts) THEN lu
    ELSE CILoop(alts, i + 1, CIStep(alts[i], lu, max_alt_LL, alpha_),
                max_alt_LL, alpha_)

likelihood_ratio_CI(alts, max_alt_LL, alpha_) ==
    CILoop(alts, 1, <<None, None>>, max_alt_LL, alpha_)

----------------------------------------------------------------------------
(* ersa_LL.py: Background, Relation, Estimate, estimate_relation *)

\* the assertion with > for >=
LengthsAboveTStrict(calc, s) ==
    \A i \in 1..Len(s) : FloatGe(s[i], calc.t) /\ s[i] # calc.t

\* assert i >= self.t, for every i of s (_Fp through _Sp, _Fa through _Sa)
LengthsAboveT(calc, s) == \A i \in 1..Len(s) : FloatGe(s[i], calc.t)

\* h0.LL(n, s) on a list whose null log-likelihood is value
LLValue(calc, n, s, value) ==
    IF LengthsAboveT(calc, s) THEN Returned(value)
    ELSE Raised("AssertionError", "_Fp")

\* h0.LL(n, s): the value is the pair's null log-likelihood
Background_LL(calc, n, s) == LLValue(calc, n, s, null_LL)

\* ha.MLL(n, s, d) on a list whose maxima per d are profile: (max_np,
\* max_mll); the first _LLr, with np = 0, hands every length to _Fa, whose
\* assert is the one that fails
MLLValue(calc, n, s, d, profile) ==
    IF LengthsAboveT(calc, s) THEN Returned(<<profile[d].np, profile[d].LL>>)
    ELSE Raised("AssertionError", "_Fa")

\* ha.MLL(n, s, d): the values are the pair's maxima per d
Relation_MLL(calc, n, s, d) == MLLValue(calc, n, s, d, mll)

\* mask.py: total_masked(): m = 0; for c in masked: for r in c: m += r[2]
RECURSIVE MaskedCmFrom(_)
MaskedCmFrom(c) ==
    IF c \notin DOMAIN masked THEN <<>>
    ELSE [k \in 1..Len(masked[c]) |-> masked[c][k][3]] \o MaskedCmFrom(c + 1)

total_masked == FloatSum(MaskedCmFrom(0))

\* a constructor that forgets to turn the masked cM into Morgans
RelationLessCm(c, r, t_, theta, lambda_, first_deg_adj, nomask, avuncular_adj) ==
    [t |-> t_, theta |-> theta, lambda_ |-> lambda_, c |-> c,
     r |-> IF nomask THEN r ELSE FloatSub(r, total_masked),
     a |-> 2, first_deg_adj |-> first_deg_adj, avuncular_adj |-> avuncular_adj]

\* Relation.__init__: self.r = r if nomask else r - total_masked() / 100
Relation(c, r, t_, theta, lambda_, first_deg_adj, nomask, avuncular_adj) ==
    [t |-> t_, theta |-> theta, lambda_ |-> lambda_, c |-> c,
     r |-> IF nomask THEN r ELSE FloatSub(r, FloatDivInt(total_masked, 100)),
     a |-> 2, first_deg_adj |-> first_deg_adj, avuncular_adj |-> avuncular_adj]

\* math.exp((-d * 2.5) / 100) for d = 1, 2, ...
ExpTable ==
    <<
        [neg |-> FALSE, m |-> <<2780, 17384, 22260, 249>>, e |-> -53],
        [neg |-> FALSE, m |-> <<9894, 24910, 16866, 243>>, e |-> -53],
        [neg |-> FALSE, m |-> <<30215, 14134, 16460, 237>>, e |-> -53],
        [neg |-> FALSE, m |-> <<11066, 13226, 20918, 231>>, e |-> -53],
        [neg |-> FALSE, m |-> <<546, 18907, 30120, 225>>, e |-> -53],
        [neg |-> FALSE, m |-> <<23776, 26761, 11181, 220>>, e |-> -53],
        [neg |-> FALSE, m |-> <<15914, 28838, 29523, 214>>, e |-> -53],
        [neg |-> FALSE, m |-> <<24921, 11308, 19499, 209>>, e |-> -53]
    >>

\* Relation._p: exp((-d * self.t) / 100), for t = 2.5 and for t = 0
_p(calc, d) == IF calc.t = FloatZero THEN FloatOfInt(1) ELSE ExpTable[d]

\* n * log(lambda_) - lambda_ - log(factorial(n)), kept as the equation the
\* mean comes from and its two arguments
PoissonLogPmf(eqn, n, lambda_) == [eqn |-> eqn, n |-> n, lambda_ |-> lambda_]

\* an _Na that looks at the avuncular flag first and takes it for every d
\* up to 3
_Na_avuncular_first(calc, n, d) ==
    LET c == FloatOfInt(calc.c)
        q34 == IntTrueDiv(3, 4)
        q14 == IntTrueDiv(1, 4)
    IN IF calc.avuncular_adj /\ d <= 3
       THEN PoissonLogPmf("Li2014Eqn9", n,
                FloatAdd(FloatMul(q34, c),
                         FloatMul(FloatMul(FloatOfInt(4), calc.r), FloatMul(q34, q14))))
       ELSE IF calc.first_deg_adj /\ d = 2
       THEN PoissonLogPmf("Li2014Eqn7", n,
                FloatAdd(FloatMul(q34, c),
                         FloatMul(FloatMul(FloatMul(FloatOfInt(2 * d), calc.r), q34), q14)))
       ELSE PoissonLogPmf("Huff2011Eqn8", n,
                FloatDivPow2(
                    FloatMul(FloatMul(FloatOfInt(calc.a),
                                      FloatAdd(FloatMul(calc.r, FloatOfInt(d)), c)),
                             _p(calc, d)),
                    d - 1))

\* Relation._Na
_Na(calc, n, d) ==
    LET c == FloatOfInt(calc.c)
        q34 == IntTrueDiv(3, 4)
        q14 == IntTrueDiv(1, 4)
    IN IF calc.first_deg_adj /\ d = 2
       THEN \* lambda_ = (3/4) * self.c + 2 * d * self.r * (3/4) * (1/4)
            PoissonLogPmf("Li2014Eqn7", n,
                FloatAdd(FloatMul(q34, c),
                         FloatMul(FloatMul(FloatMul(FloatOfInt(2 * d), calc.r), q34), q14)))
       ELSE IF calc.avuncular_adj /\ d = 3
       THEN \* lambda_ = (3/4) * self.c + 4 * self.r * ((3/4) * (1/4))
            PoissonLogPmf("Li2014Eqn9", n,
                FloatAdd(FloatMul(q34, c),
                         FloatMul(FloatMul(FloatOfInt(4), calc.r), FloatMul(q34, q14))))
       ELSE \* lambda_ = (self.a * (self.r * d + self.c) * self._p(d)) / (2 ** (d - 1))
            PoissonLogPmf("Huff2011Eqn8", n,
                FloatDivPow2(
                    FloatMul(FloatMul(FloatOfInt(calc.a),
                                      FloatAdd(FloatMul(calc.r, FloatOfInt(d)), c)),
                             _p(calc, d)),
                    d - 1))

\* Relation._Fa: the terms of l_prob that need no log or exp, and the
\* arguments of the log and of the series of the others
_Fa(calc, i, d) ==
    IF ~FloatGe(i, calc.t) THEN Raised("AssertionError", "_Fa")
    ELSE IF calc.first_deg_adj /\ d = 2
    THEN \* l_a1 = log(1/2) - (d * i) / 100 - log(100/d); y = log1p(sum over k
         \* of exp((k - 1) * log(i / 100) - log((k - 1)!))); l_prob = l_a1 + y
         Returned([eqn |-> "Li2014Eqn6",
                   linear |-> FloatNeg(FloatDivInt(FloatMul(FloatOfInt(d), i), 100)),
                   log_of |-> IntTrueDiv(100, d),
                   series_of |-> FloatDivInt(i, 100)])
    ELSE \* l_prob = (-d * (i - self.t) / 100); l_prob += -log(100 / d)
         Returned([eqn |-> "Huff2011",
                   linear |-> FloatDivInt(FloatMul(FloatNeg(FloatOfInt(d)),
                                                   FloatSub(i, calc.t)), 100),
                   log_of |-> IntTrueDiv(100, d),
                   series_of |-> FloatZero])

\* Relation._LLr(np, na, s, d): _Np(np) + _Na(na, d) + _Sp(s[:np]) +
\* _Sa(s[np:], d); the value is the pair's llr[d][np + 1]
_LLr(calc, np, na, s, d) ==
    IF LengthsAboveT(calc, s) THEN Returned(llr[d][np + 1])
    ELSE IF ~LengthsAboveT(calc, SubSeq(s, 1, np)) THEN Raised("AssertionError", "_Fp")
    ELSE Raised("AssertionError", "_Fa")

\* a scan that also moves on a tie, and so keeps the last of the largest
RECURSIVE MLLScanLast(_, _, _, _, _, _)
MLLScanLast(calc, n, s, d, np, best) ==
    IF np > n THEN best
    ELSE LET m == _LLr(calc, np, n - np, s, d).val
         IN MLLScanLast(calc, n, s, d, np + 1,
                        IF best = None \/ best[1][2] <= m THEN Some(<<np, m>>) ELSE best)

\* for np in range(n + 1): ... elif max_mll < mll: max_mll, max_np = mll, np
RECURSIVE MLLScan(_, _, _, _, _, _)
MLLScan(calc, n, s, d, np, best) ==
    IF np > n THEN best
    ELSE LET m == _LLr(calc, np, n - np, s, d).val
         IN MLLScan(calc, n, s, d, np + 1,
                    IF best = None THEN Some(<<np, m>>)
                    ELSE IF best[1][2] < m THEN Some(<<np, m>>)
                    ELSE best)

\* Relation.MLL(n, s, d): (max_np, max_mll), (None, None) for n < 0
MLL(calc, n, s, d) ==
    IF n >= 0 /\ ~LengthsAboveT(calc, s) THEN _LLr(calc, 0, n, s, d)
    ELSE LET best == MLLScan(calc, n, s, d, 0, None)
         IN IF best = None THEN Returned(<<None, None>>) ELSE Returned(best[1])

\* a sortedness check that also refuses equal neighbours
SortedCheckStrict(s) ==
    \A i \in 2..Len(s) : FloatLe(s[i - 1], s[i]) /\ s[i - 1] # s[i]

\* for i in range(1, len(s)): assert s[i - 1] <= s[i]
SortedCheck(s) == \A i \in 2..Len(s) : FloatLe(s[i - 1], s[i])

\* a maximum that keeps the last of the largest
RECURSIVE MaxScanLast(_, _, _)
MaxScanLast(alts, i, best) ==
    IF i > Len(alts) THEN best
    ELSE MaxScanLast(alts, i + 1, IF alts[i][3] >= best[3] THEN alts[i] ELSE best)

\* max(alts, key=itemgetter(2)): the first of the largest
RECURSIVE MaxScan(_, _, _)
MaxScan(alts, i, best) ==
    IF i > Len(alts) THEN best
    ELSE MaxScan(alts, i + 1, IF alts[i][3] > best[3] THEN alts[i] ELSE best)

MaxAlt(alts) == MaxScan(alts, 2, alts[1])

\* a test with the comparison turned round
RejectNullAbove(p, alpha_) == p > alpha_

\* reject = True if p < alpha else False
RejectNull(p, alpha_) == p < alpha_

\* the default years without the parity of d
LabelYearsSameYear(dob_, d) ==
    IF dob_[1] = None \/ dob_[2] = None
    THEN <<0, 0>>
    ELSE <<dob_[1][1], dob_[2][1]>>

\* the years Estimate.__init__ hands to potential_relationship
LabelYears(dob_, d) ==
    IF dob_[1] = None \/ dob_[2] = None
    THEN IF d % 2 = 0 THEN <<0, 0>> ELSE <<0, 31>>
    ELSE <<dob_[1][1], dob_[2][1]>>

\* for i in range(len(self.alts)): self.LLs[alt[0] - 1] = alt[2]
RECURSIVE LLsLoop(_, _, _)
LLsLoop(alts, i, LLs) ==
    IF i > Len(alts) THEN LLs
    ELSE LLsLoop(alts, i + 1, ((alts[i][1] - 1) :> alts[i][3]) @@ LLs)

EstimateLLs(alts) == LLsLoop(alts, 1, <<>>)

\* self.d = d - 1
EstimateD(d) == d - 1

\* Estimate.__init__; pair is <<indv1, indv2>>, the two sides of "indv1:indv2"
Estimate(pair, dob_, d, reject, nLL, max_LL, lower_d, upper_d, alts, s, np, p) ==
    LET years == LabelYears(dob_, d)
        rel == IF reject
               THEN potential_relationship(d, pair[1], pair[2], years[1], years[2])
               ELSE <<None, None>>
    IN IF rel = None THEN Raised("TypeError", "Estimate.__init__")
       ELSE Returned(
            [pair |-> pair, indv1 |-> pair[1], indv2 |-> pair[2], dob |-> dob_,
             reject |-> reject, alts |-> alts, s |-> s, null_LL |-> nLL,
             max_LL |-> max_LL, lower_d |-> lower_d, upper_d |-> upper_d,
             np |-> np, p |-> p,
             rel_est1 |-> IF reject THEN Some(rel[1]) ELSE None,
             rel_est2 |-> IF reject THEN Some(rel[2]) ELSE None,
             d |-> Some(EstimateD(d)), cm |-> FloatSum(s), LLs |-> EstimateLLs(alts)])

\* for d in range(1, max_d + 1): alts.append((d, alt_np, alt_MLL))
RECURSIVE AltsLoop(_, _, _, _, _, _)
AltsLoop(calca, n, s, d, max_d_, alts) ==
    IF d > max_d_ THEN alts
    ELSE LET m == Relation_MLL(calca, n, s, d).val
         IN AltsLoop(calca, n, s, d + 1, max_d_, Append(alts, <<d, m[1], m[2]>>))

\* the d at which the first-degree formulas apply: "d == 2" in _Fa and _Na
FirstDegreeD == 2

\* the alternatives more than one d away from d
NonAdjacent(alts, d) ==
    SelectSeq(alts, LAMBDA x : x[1] - d > 1 \/ d - x[1] > 1)

\* a secondary comparison: a maximum at the first-degree d is kept only when
\* it is significantly more likely than the best alternative not next to it
SecondaryComparison(alts, max_alt, first_deg_adj, alpha_) ==
    LET others == NonAdjacent(alts, FirstDegreeD)
    IN IF first_deg_adj /\ max_alt[1] = FirstDegreeD /\ others # <<>>
          /\ ~LL_ratio_test(max_alt[3], MaxAlt(others)[3], alpha_)
       THEN MaxAlt(others)
       ELSE max_alt

\* estimate_relation with that secondary comparison after the maximum
estimate_relation_secondary(pair, dob_, n, s, calc0, calca, max_d_, alpha_, ci_) ==
    IF ~SortedCheck(s) THEN Raised("AssertionError", "sorted")
    ELSE LET nl == Background_LL(calc0, n, s)
         IN IF nl.exc # "" THEN nl
            ELSE LET alts == AltsLoop(calca, n, s, 1, max_d_, <<>>)
                     max_alt == SecondaryComparison(alts, MaxAlt(alts),
                                                    calca.first_deg_adj, alpha_)
                     d == max_alt[1]
                     np == max_alt[2]
                     max_LL == max_alt[3]
                     p == LL_ratio_p(max_LL, nl.val)
                     reject == RejectNull(p, alpha_)
                     bounds == IF ci_ /\ reject
                               THEN likelihood_ratio_CI(alts, max_LL, alpha_)
                               ELSE <<None, None>>
                 IN Estimate(pair, dob_, d, reject, nl.val, max_LL,
                             bounds[1], bounds[2], alts, s, np, p)

\* estimate_relation from max(alts, key=itemgetter(2)) to the Estimate
EstimateFromAlts(pair, dob_, s, nLL, alts, alpha_, ci_) ==
    LET max_alt == MaxAlt(alts)
        d == max_alt[1]
        np == max_alt[2]
        max_LL == max_alt[3]
        p == LL_ratio_p(max_LL, nLL)
        reject == RejectNull(p, alpha_)
        bounds == IF ci_ /\ reject
                  THEN likelihood_ratio_CI(alts, max_LL, alpha_)
                  ELSE <<None, None>>
    IN Estimate(pair, dob_, d, reject, nLL, max_LL,
                bounds[1], bounds[2], alts, s, np, p)

estimate_relation(pair, dob_, n, s, calc0, calca, max_d_, alpha_, ci_) ==
    IF ~SortedCheck(s) THEN Raised("AssertionError", "sorted")
    ELSE LET nl == Background_LL(calc0, n, s)
         IN IF nl.exc # "" THEN nl
            ELSE EstimateFromAlts(pair, dob_, s, nl.val,
                                  AltsLoop(calca, n, s, 1, max_d_, <<>>),
                                  alpha_, ci_)

----------------------------------------------------------------------------
(* ersa.py: estimates_to_dicts;  dbmanager.py: Database.insert *)

RECURSIVE TotalBp(_)
TotalBp(seg_list) ==
    IF seg_list = <<>> THEN 0
    ELSE seg_list[1].bpEnd - seg_list[1].bpStart + 1 + TotalBp(Tail(seg_list))

\* the dictionary built for one (est, seg_list)
EstimateDict(e, seg_list) ==
    [pair |-> e.pair, indv1 |-> e.indv1, indv2 |-> e.indv2,
     d_est |-> e.d, rel_est1 |-> e.rel_est1, rel_est2 |-> e.rel_est2,
     n |-> Len(e.s), total_cM |-> e.cm, total_bp |-> TotalBp(seg_list),
     LLs |-> e.LLs, na |-> Len(e.s) - e.np,
     segments |-> [i \in 1..Len(seg_list) |->
                     [chromosome |-> seg_list[i].chrom,
                      length |-> seg_list[i].length,
                      bp_start |-> seg_list[i].bpStart,
                      bp_end |-> seg_list[i].bpEnd]],
     max_model_p |-> e.p, reject |-> e.reject]

\* Database.insert, one estimate: d_est is computed, then est.rel_est is read;
\* an Estimate has rel_est1 and rel_est2 and no rel_est, so nothing is inserted
InsertEstimate(database, e, seg_list) ==
    LET d_est == IF e.reject THEN e.d ELSE None
    IN IF "rel_est" \in DOMAIN e
       THEN [rows |-> Append(database.rows,
                             [indv1 |-> e.indv1, indv2 |-> e.indv2, d_est |-> d_est,
                              n |-> Len(e.s), total_cM |-> FloatSum(e.s)]),
             exc |-> ""]
       ELSE [rows |-> database.rows, exc |-> "AttributeError"]

----------------------------------------------------------------------------
(* One pair handed to the estimator, then to the two outputs *)

\* largest dmax of a run (the relationship table ends at RelMapDmax)
MaxD == 21

DmaxChoices == {3, MaxD}

\* significance levels, in 1/10000
Alphas == {10, 500, 5000, 10000}

\* the per-d profile of maximum log-likelihoods: two peaks of the same height
\* at peak and peak + gap, falling by slope per step away from the nearer one
Dist(d, peak, gap) ==
    LET d1 == IF d >= peak THEN d - peak ELSE peak - d
        d2 == IF d >= peak + gap THEN d - (peak + gap) ELSE peak + gap - d
    IN IF d1 < d2 THEN d1 ELSE d2

Profile(md, n, peak, shape) ==
    [d \in 1..md |-> [np |-> IF d <= peak THEN 0 ELSE n,
                      LL |-> -2 - shape[2] * Dist(d, peak, shape[1])]]

Shapes == {<<0, 1>>, <<0, 4>>, <<1, 1>>, <<3, 4>>}

NullLLs == {-10, -7, -3, -1}

\* seg_lists the estimator accepts: ascending lengths (one with a tie), all >= t
GoodSegLists ==
    { <<SharedSegment(1, 100, 200, 300), SharedSegment(1, 250, 300, 300),
        SharedSegment(2, 100, 300, 500)>>,
      <<SharedSegment(3, 100, 900, 1200)>> }

\* seg_lists that break a precondition: descending lengths, a length below t
BadSegLists ==
    { <<SharedSegment(1, 100, 200, 500), SharedSegment(2, 100, 300, 300)>>,
      <<SharedSegment(1, 100, 200, 100), SharedSegment(2, 100, 300, 300)>>,
      <<SharedSegment(1, 100, 200, 300), SharedSegment(2, 100, 300, 100)>> }

\* where the profile peaks: the ends of the tested range and of the table, and
\* the first d whose odd buckets are labelled apart ("d_est < 5")
Peaks(md) == {d \in {1, 2, 5, RelMapDmax, md} : d <= md}

LabIdle ==
    /\ lab = [d |-> 0, y1 |-> 0, y2 |-> 0]
    /\ fwd = Pending
    /\ rev = Pending

NoCall == [status |-> "pending", exc |-> "", at |-> ""]

SegIdle ==
    /\ t = FloatOfCenti(250)
    /\ prevSegs = <<>>
    /\ ops = <<>>

RelIdle ==
    /\ ha = None
    /\ llr = <<>>
    /\ call = None

PipeIdle ==
    /\ pair_dict = <<>>
    /\ runs = <<>>
    /\ like = <<>>

\* Base.metadata.create_all: the three tables, without rows
EmptyTables == [result |-> <<>>, likelihood |-> <<>>, segment |-> <<>>]

\* no call inside the with block yet
NoBody == [calls |-> 0, last |-> "", args |-> None, ret |-> None, exc |-> ""]

\* self.conn = None; self.trans = None
DbIdle ==
    /\ stored = EmptyTables
    /\ conn = "none"
    /\ trans = "none"
    /\ tables = EmptyTables
    /\ body = NoBody

EstIdle ==
    /\ h0 = [t |-> t]
    /\ dob = <<None, None>>
    /\ max_d = 1
    /\ ci = FALSE
    /\ null_LL = 0
    /\ mll = Profile(1, 0, 1, <<0, 1>>)
    /\ alpha = 500
    /\ outcome = NoCall
    /\ est = None
    /\ prev = None
    /\ line = None
    /\ db = [rows |-> <<>>, exc |-> ""]

Init ==
    /\ LabIdle
    /\ SegIdle
    /\ segs \in GoodSegLists \cup BadSegLists
    /\ h0 = [t |-> t]
    /\ dob = <<None, None>>
    /\ max_d \in DmaxChoices
    /\ ci \in BOOLEAN
    /\ null_LL \in NullLLs
    /\ \E peak \in Peaks(max_d), shape \in Shapes :
           /\ segs \in BadSegLists => peak = 1 /\ shape = <<0, 1>>
           /\ mll = Profile(max_d, Len(segs), peak, shape)
    /\ alpha = 500
    /\ outcome = NoCall
    /\ est = None
    /\ prev = None
    /\ line = None
    /\ db = [rows |-> <<>>, exc |-> ""]
    /\ RelIdle
    /\ PipeIdle
    /\ DbIdle

\* dob = (None, None); s = [seg.length for seg in seg_list]; n = len(s);
\* est = estimate_relation(pair, dob, n, s, h0, ha, args.dmax, args.alpha, args.ci)
GenEstimate(a) ==
    LET s == Lengths(segs)
        r == estimate_relation(<<"A", "B">>, dob, Len(s), s, h0, h0, max_d, a, ci)
    IN /\ alpha' = a
       /\ outcome' = [status |-> IF r.exc = "" THEN "returned" ELSE "raised",
                      exc |-> r.exc, at |-> r.at]
       /\ est' = IF r.exc = "" THEN Some(r.val) ELSE None
       /\ line' = None
       /\ db' = [rows |-> db.rows, exc |-> ""]
       /\ UNCHANGED <<labVars, segVars, inVars, relVars, pipeVars, dbVars>>

\* a run of the program on the pair, at any significance level
EstimateRelation ==
    \E a \in Alphas :
        /\ outcome.status = "pending"
        /\ prev' = None
        /\ GenEstimate(a)

\* a second run on the same input at a looser significance level; the first
\* run's result is kept in prev
EstimateRelationAgain ==
    \E a \in Alphas :
        /\ outcome.status # "pending"
        /\ prev = None
        /\ a > alpha
        /\ prev' = Some([alpha |-> alpha, outcome |-> outcome, est |-> est])
        /\ GenEstimate(a)

\* main without -D: StreamJSON(estimates_to_dicts, g=g)
EstimatesToDicts ==
    /\ outcome.status = "returned"
    /\ line = None
    /\ db.exc = ""
    /\ line' = Some(EstimateDict(est[1], segs))
    /\ UNCHANGED <<labVars, segVars, inVars, alpha, outcome, est, prev, db, relVars, pipeVars, dbVars>>

\* db.insert(ests, seg_lists) on the estimate of the pair, the call of main's
\* with block
DatabaseInsert ==
    /\ outcome.status = "returned"
    /\ db.exc = ""
    /\ line = None
    /\ db' = InsertEstimate(db, est[1], segs)
    /\ UNCHANGED <<labVars, segVars, inVars, alpha, outcome, est, prev, line, relVars, pipeVars, dbVars>>

Next ==
    \/ EstimateRelation
    \/ EstimateRelationAgain
    \/ EstimatesToDicts
    \/ DatabaseInsert

Spec == Init /\ [][Next]_vars

----------------------------------------------------------------------------
(* merge_segments and mask_input_segs called on a segment list, as the     *)
(* tests call them: any merge_len, and the mask applied once or again      *)

\* longest segment list of a pair
MaxSegs == 3

\* most calls of mask_input_segs on one list
MaxMasks == 2

\* segments near each other on chromosome 1 (abutting, overlapping, nested,
\* two base pairs apart), and segments around the masked regions of
\* chromosomes 9 and 2 (spanning, contained, truncated at either end)
SegPool ==
    { SharedSegment(1, 100, 200, 2566),
      SharedSegment(1, 200, 300, 2428),
      SharedSegment(1, 150, 250, 500),
      SharedSegment(1, 302, 400, 350),
      SharedSegment(1, 120, 180, 250),
      SharedSegment(9, 37293483, 73605261, 3000),
      SharedSegment(9, 38293483, 72605261, 629),
      SharedSegment(9, 40000000, 80000000, 2000),
      SharedSegment(9, 30000000, 50000000, 2000),
      SharedSegment(2, 80000000, 200000000, 1400) }

\* the lists of up to n distinct segments of the pool
RECURSIVE ListsUpTo(_)
ListsUpTo(n) ==
    IF n = 0 THEN {<<>>}
    ELSE LET shorter == ListsUpTo(n - 1)
         IN shorter \cup
            {Append(q, x) : q \in {w \in shorter : Len(w) = n - 1},
                            x \in SegPool}

MergeLens == {-1, 0, 2, 100}

Thresholds == {FloatOfCenti(0), FloatOfCenti(250)}

SegInit ==
    /\ LabIdle
    /\ t \in Thresholds
    /\ EstIdle
    /\ segs \in {q \in ListsUpTo(MaxSegs) :
                    \A i, j \in 1..Len(q) : i # j => q[i] # q[j]}
    /\ prevSegs = <<>>
    /\ ops = <<>>
    /\ RelIdle
    /\ PipeIdle
    /\ DbIdle

\* new_segs = merge_segments(segs, merge_len), called on its own on a list
\* not yet preprocessed
MergeSegments ==
    \E ml \in MergeLens :
        /\ ops = <<>>
        /\ segs' = merge_segments(segs, ml)
        /\ prevSegs' = segs
        /\ ops' = Append(ops, [name |-> "merge", merge_len |-> ml])
        /\ UNCHANGED <<labVars, t, h0, dob, max_d, ci, null_LL, mll, estVars, relVars, pipeVars, dbVars>>

NMasks == Cardinality({i \in 1..Len(ops) : ops[i].name = "mask"})

\* res = mask_input_segs(segs, t), called on its own, on what the call
\* before returned
MaskInputSegs ==
    /\ NMasks < MaxMasks
    /\ segs' = mask_input_segs(segs, t)
    /\ prevSegs' = segs
    /\ ops' = Append(ops, [name |-> "mask", merge_len |-> 0])
    /\ UNCHANGED <<labVars, t, h0, dob, max_d, ci, null_LL, mll, estVars, relVars, pipeVars, dbVars>>

SegNext == MergeSegments \/ MaskInputSegs

SpecSegs == SegInit /\ [][SegNext]_vars

----------------------------------------------------------------------------
(* The labeller called on a pair and on the same pair with sides swapped *)

LabInit ==
    /\ lab \in [d : 0..MaxLabelD, y1 : Years, y2 : Years]
    /\ fwd = Pending
    /\ rev = Pending
    /\ SegIdle
    /\ segs = <<>>
    /\ EstIdle
    /\ RelIdle
    /\ PipeIdle
    /\ DbIdle

LabelForward ==
    /\ fwd = Pending
    /\ fwd' = potential_relationship(lab.d, "A", "B", lab.y1, lab.y2)
    /\ UNCHANGED <<lab, rev, segVars, inVars, estVars, relVars, pipeVars, dbVars>>

LabelSwapped ==
    /\ rev = Pending
    /\ rev' = potential_relationship(lab.d, "B", "A", lab.y2, lab.y1)
    /\ UNCHANGED <<lab, fwd, segVars, inVars, estVars, relVars, pipeVars, dbVars>>

LabNext == LabelForward \/ LabelSwapped

SpecLabel == LabInit /\ [][LabNext]_vars

----------------------------------------------------------------------------
(* A Relation calculator constructed for one pair, and the library functions *)
(* called on it one at a time                                                *)

\* largest d of these calls
RelDmax == 5

\* -r's default, 35.2548101
DefaultR == IntTrueDiv(352548101, 10000000)

\* the docstring's theta and -l's default
RelTheta == FloatOfCenti(312)
RelLambda == FloatOfCenti(1373)

\* -c's default
Autosomes == 22

\* seg_lists with a length at t, and with a length below t in first and in
\* last place
ThresholdSegLists ==
    { <<SharedSegment(1, 100, 200, 250), SharedSegment(2, 100, 300, 300)>>,
      <<SharedSegment(1, 100, 200, 249), SharedSegment(2, 100, 300, 300)>>,
      <<SharedSegment(1, 100, 200, 300), SharedSegment(2, 100, 300, 249)>> }

\* seg_lists of the pair: sorted ones, the empty one, and those about t
RelSegLists == GoodSegLists \cup {<<>>} \cup ThresholdSegLists

\* the maximum over np of _LLr for d = 1, 2, ...: the best at d = 2 with the
\* next best two steps away, the best at d = 2 alone, three d sharing the
\* best, and the best at d = 3 and 4
DProfiles ==
    { <<-5, -2, -4, -3, -6, -6, -6>>,
      <<-5, -2, -4, -9, -9, -9, -9>>,
      <<-2, -2, -4, -4, -2, -4, -4>>,
      <<-9, -6, -3, -3, -5, -9, -9>> }

\* how far _LLr falls below that maximum at np of n: least at np = 0, least
\* at np = n, the same at every np, least at np = 1 and 2
NpShapes == {"background last", "background first", "flat", "middle"}

NpShape(kind, np, n) ==
    CASE kind = "background last" -> np
      [] kind = "background first" -> n - np
      [] kind = "flat" -> 0
      [] OTHER -> IF np \in {1, 2} THEN 0 ELSE 1

LLrTable(profile, kind, n, md) ==
    [d \in 1..md |-> [k \in 1..(n + 1) |-> profile[d] - NpShape(kind, k - 1, n)]]

RelNullLLs == {-7, -3}

RelAlphas == {500, 5000}

\* lengths handed to _Fa: below t, at t, above t
RelLengths == {FloatOfCenti(200), FloatOfCenti(250), FloatOfCenti(1229)}

RelInit ==
    /\ LabIdle
    /\ SegIdle
    /\ segs \in RelSegLists
    /\ h0 = [t |-> t]
    /\ dob = <<None, None>>
    /\ max_d = RelDmax
    /\ ci \in BOOLEAN
    /\ null_LL \in RelNullLLs
    /\ \E profile \in DProfiles, kind \in NpShapes :
           /\ segs \in ThresholdSegLists =>
                  profile = <<-5, -2, -4, -3, -6, -6, -6>> /\ kind = "flat"
           /\ llr = LLrTable(profile, kind, Len(segs), max_d)
    /\ mll = [d \in 1..max_d |->
                LET m == MLL(h0, Len(segs), Lengths(segs), d)
                IN IF m.exc # "" THEN [np |-> 0, LL |-> 0]
                   ELSE [np |-> m.val[1], LL |-> m.val[2]]]
    /\ alpha = 500
    /\ outcome = NoCall
    /\ est = None
    /\ prev = None
    /\ line = None
    /\ db = [rows |-> <<>>, exc |-> ""]
    /\ ha = None
    /\ call = None
    /\ PipeIdle
    /\ DbIdle

Called(name, args, result) ==
    /\ call = None
    /\ call' = Some([name |-> name, args |-> args, result |-> result])
    /\ UNCHANGED <<labVars, segVars, inVars, estVars, ha, llr, pipeVars, dbVars>>

\* ha = Relation(args.c, args.r, args.t, args.theta, args.l,
\*               args.first_deg_adj, args.nomask, args.avuncular_adj)
NewRelation ==
    \E first_deg_adj \in BOOLEAN, nomask \in BOOLEAN, avuncular_adj \in BOOLEAN :
        /\ ha = None
        /\ ha' = <<Relation(Autosomes, DefaultR, t, RelTheta, RelLambda,
                            first_deg_adj, nomask, avuncular_adj),
                   [r |-> DefaultR, nomask |-> nomask]>>
        /\ UNCHANGED <<labVars, segVars, inVars, estVars, llr, call, pipeVars, dbVars>>

\* ha._Na(n, d)
CallNa ==
    \E n \in 0..1, d \in 1..max_d :
        /\ ha # None
        /\ Called("_Na", <<n, d>>, _Na(ha[1], n, d))

\* ha._Fa(i, d)
CallFa ==
    \E i \in RelLengths, d \in 1..max_d :
        /\ ha # None
        /\ Called("_Fa", <<i, d>>, _Fa(ha[1], i, d))

\* h0.LL(n, s)
CallLL ==
    Called("LL", <<Len(segs), Lengths(segs)>>,
           Background_LL(h0, Len(segs), Lengths(segs)))

\* ha.MLL(n, s, d)
CallMLL ==
    \E d \in 1..max_d :
        /\ ha # None
        /\ Called("MLL", <<Len(segs), Lengths(segs), d>>,
                  MLL(ha[1], Len(segs), Lengths(segs), d))

\* likelihood_ratio_CI(alts, max_alt_LL, alpha) on the pair's alts, with the
\* largest of their log-likelihoods or with 0, which is above them all
CallLikelihoodRatioCI ==
    \E top \in BOOLEAN, a \in RelAlphas :
        LET s == Lengths(segs)
            alts == AltsLoop(ha[1], Len(s), s, 1, max_d, <<>>)
            max_alt_LL == IF top THEN MaxAlt(alts)[3] ELSE 0
        IN /\ ha # None
           /\ LengthsAboveT(ha[1], s)
           /\ Called("likelihood_ratio_CI", <<alts, max_alt_LL, a>>,
                     likelihood_ratio_CI(alts, max_alt_LL, a))

\* estimate_relation(pair, dob, n, s, h0, ha, max_d, alpha, ci)
CallEstimateRelation ==
    \E a \in RelAlphas :
        LET s == Lengths(segs)
        IN /\ ha # None
           /\ Called("estimate_relation", <<a>>,
                     estimate_relation(<<"A", "B">>, dob, Len(s), s, h0, ha[1],
                                       max_d, a, ci))

RelNext ==
    \/ NewRelation
    \/ CallNa
    \/ CallFa
    \/ CallLL
    \/ CallMLL
    \/ CallLikelihoodRatioCI
    \/ CallEstimateRelation

SpecRel == RelInit /\ [][RelNext]_vars

----------------------------------------------------------------------------
(* estimate_relation called on the pairs of a run, in any order, more than *)
(* once, and with the calls in progress taking their statements in turn    *)

\* estimate_relation calls in a run
MaxRuns == 3

\* the pair_dict of a run: two pairs with the individual A in both
PairDicts ==
    { (<<"A", "B">> :> <<SharedSegment(1, 100, 200, 300), SharedSegment(1, 250, 300, 300),
                         SharedSegment(2, 100, 300, 500)>>)
      @@ (<<"A", "C">> :> <<SharedSegment(3, 100, 900, 1200)>>),
      (<<"A", "B">> :> <<SharedSegment(3, 100, 900, 1200)>>)
      @@ (<<"B", "C">> :> <<SharedSegment(1, 100, 200, 300), SharedSegment(2, 100, 300, 500)>>) }

\* the lists of lengths of a pair_dict
ListsOf(dict) == {Lengths(dict[pair]) : pair \in DOMAIN dict}

\* what the calculators can return for a list s tested up to md: a null
\* log-likelihood and maxima per d that peak at 1, and a flat profile below
\* the null log-likelihood
LikesOf(s, md) ==
    { [null_LL |-> -10, mll |-> Profile(md, Len(s), 1, <<0, 4>>)],
      [null_LL |-> -7, mll |-> Profile(md, Len(s), md, <<0, 1>>)],
      [null_LL |-> -1, mll |-> Profile(md, Len(s), 2, <<0, 1>>)] }

\* main up to the call of gen_estimates: the calculators are constructed and
\* the pairs are read; the likelihoods are a function of the list
PairsInit ==
    /\ LabIdle
    /\ SegIdle
    /\ segs = <<>>
    /\ h0 = [t |-> t]
    /\ dob = <<None, None>>
    /\ max_d = 3
    /\ ci \in BOOLEAN
    /\ null_LL = 0
    /\ mll = Profile(1, 0, 1, <<0, 1>>)
    /\ alpha \in {500, 10000}
    /\ outcome = NoCall
    /\ est = None
    /\ prev = None
    /\ line = None
    /\ db = [rows |-> <<>>, exc |-> ""]
    /\ ha = <<Relation(Autosomes, DefaultR, t, RelTheta, RelLambda, FALSE, FALSE, FALSE),
              [r |-> DefaultR, nomask |-> FALSE]>>
    /\ llr = <<>>
    /\ call = None
    /\ pair_dict \in PairDicts
    /\ runs = <<>>
    /\ \E f \in [ListsOf(pair_dict) -> UNION {LikesOf(s, max_d) : s \in ListsOf(pair_dict)}] :
          /\ \A s \in ListsOf(pair_dict) : f[s] \in LikesOf(s, max_d)
          /\ like = f
    /\ DbIdle

\* a call that has not executed a statement yet
NewCall(pair, s) ==
    [pair |-> pair, s |-> s, pc |-> "assert", null_LL |-> None, d |-> 1,
     alts |-> <<>>, result |-> None]

\* a step of the call i: what the statement leaves of its variables
Step(i, after) ==
    /\ runs' = [runs EXCEPT ![i] = after]
    /\ UNCHANGED <<labVars, segVars, inVars, estVars, relVars, pair_dict, like, dbVars>>

\* the call i is left, by return or by an exception
Leaves(i, result) ==
    Step(i, [runs[i] EXCEPT !.pc = "done", !.result = Some(result)])

\* a call of estimate_relation begins, with the arguments gen_estimates
\* hands it for a pair of the dictionary: dob = (None, None), s =
\* [seg.length for seg in seg_list], n = len(s), h0, ha, args.dmax,
\* args.alpha, args.ci; the calls begun before it need not have returned
StartEstimate(pair) ==
    /\ Len(runs) < MaxRuns
    /\ runs' = Append(runs, NewCall(pair, Lengths(pair_dict[pair])))
    /\ UNCHANGED <<labVars, segVars, inVars, estVars, relVars, pair_dict, like, dbVars>>

\* for i in range(1, len(s)): assert s[i - 1] <= s[i]
CheckSorted(i) ==
    /\ runs[i].pc = "assert"
    /\ IF SortedCheck(runs[i].s)
       THEN Step(i, [runs[i] EXCEPT !.pc = "null_LL"])
       ELSE Leaves(i, Raised("AssertionError", "sorted"))

\* a list created once for all calls: each call goes on with what the call
\* before it appended
KeptAlts(calls, i) == IF i > 1 THEN calls[i - 1].alts ELSE <<>>

\* alts = []
NewAlts(calls, i) == <<>>

\* null_LL = h0.LL(n, s); alts = []
NullLikelihood(i) ==
    /\ runs[i].pc = "null_LL"
    /\ LET s == runs[i].s
           nl == LLValue(h0, Len(s), s, like[s].null_LL)
       IN IF nl.exc # "" THEN Leaves(i, nl)
          ELSE Step(i, [runs[i] EXCEPT !.pc = "alts", !.null_LL = Some(nl.val),
                                       !.alts = NewAlts(runs, i)])

\* one turn of for d in range(1, max_d + 1): alt_np, alt_MLL = ha.MLL(n, s, d);
\* alts.append((d, alt_np, alt_MLL))
NextAlt(i) ==
    /\ runs[i].pc = "alts"
    /\ runs[i].d <= max_d
    /\ LET s == runs[i].s
           m == MLLValue(ha[1], Len(s), s, runs[i].d, like[s].mll)
       IN IF m.exc # "" THEN Leaves(i, m)
          ELSE Step(i, [runs[i] EXCEPT
                          !.d = @ + 1,
                          !.alts = Append(@, <<runs[i].d, m.val[1], m.val[2]>>)])

\* after the loop: max_alt = max(alts, key=itemgetter(2)) ... return est
MakeEstimate(i) ==
    /\ runs[i].pc = "alts"
    /\ runs[i].d > max_d
    /\ Leaves(i, EstimateFromAlts(runs[i].pair, <<None, None>>, runs[i].s,
                                  runs[i].null_LL[1], runs[i].alts, alpha, ci))

PairsNext ==
    \/ \E pair \in DOMAIN pair_dict : StartEstimate(pair)
    \/ \E i \in 1..Len(runs) : CheckSorted(i)
    \/ \E i \in 1..Len(runs) : NullLikelihood(i)
    \/ \E i \in 1..Len(runs) : NextAlt(i)
    \/ \E i \in 1..Len(runs) : MakeEstimate(i)

SpecPairs == PairsInit /\ [][PairsNext]_vars

----------------------------------------------------------------------------
(* The functions of a run before and after the estimator, called on their  *)
(* own: get_pair_dict on a match file                                      *)

\* most lines of a match file
MaxLines == 3

\* the identifiers "A", "B", "C", "9" and "10"
IdA == <<65>>
IdB == <<66>>
IdC == <<67>>
Id9 == <<57>>
Id10 == <<49, 48>>

MatchLine(id1, id2, chrom, bpStart, bpEnd, centi, unit) ==
    [indivID1 |-> id1, indivID2 |-> id2, chrom |-> chrom, bpStart |-> bpStart,
     bpEnd |-> bpEnd, centi |-> centi, lengthUnit |-> unit]

\* lines of a match file: A and B on either side, two base pairs apart on
\* chromosome 1; a short segment; segments inside and across the masked
\* region of chromosome 9; identifiers whose order as text is not their
\* order as numbers; a chromosome beyond the masked table; a chromosome
\* below 0, across the masked region of chromosome 22; a length in MB
LinePool ==
    { MatchLine(IdA, IdB, 1, 100, 200, 300, "cM"),
      MatchLine(IdB, IdA, 1, 202, 300, 250, "cM"),
      MatchLine(IdA, IdB, 1, 500, 600, 100, "cM"),
      MatchLine(IdA, IdC, 9, 38293483, 72605261, 629, "cM"),
      MatchLine(IdB, IdA, 9, 40000000, 80000000, 2000, "cM"),
      MatchLine(Id9, Id10, 3, 100, 900, 1200, "cM"),
      MatchLine(IdC, IdA, 23, 100, 900, 500, "cM"),
      MatchLine(IdC, IdA, -1, 15000000, 27000000, 3000, "cM"),
      MatchLine(IdB, IdC, 4, 100, 900, 1, "MB") }

\* the files of up to n distinct lines of the pool
RECURSIVE FilesUpTo(_)
FilesUpTo(n) ==
    IF n = 0 THEN {<<>>}
    ELSE LET shorter == FilesUpTo(n - 1)
         IN shorter \cup
            {Append(q, x) : q \in {w \in shorter : Len(w) = n - 1},
                            x \in LinePool}

MatchFiles ==
    {q \in FilesUpTo(MaxLines) : \A i, j \in 1..Len(q) : i # j => q[i] # q[j]}

\* -u: no filter, and the individuals A and 9
Users == {None, IdA, Id9}

\* --merge_segs
DictMergeLens == {-1, 2, 100}

\* the truth value Python gives an optional float: None and 0.0 are false
FloatTruthy(x) == x # None /\ x[1].m # <<>>

\* sum(i.length > l_needed for i in seg_list)
CountLonger(seg_list, l_needed) ==
    Cardinality({i \in 1..Len(seg_list) :
                    FloatCmp(seg_list[i].length, l_needed) > 0})

\* keep = True if count > n_needed else False
KeepBySeg(args, seg_list) ==
    /\ args.keep_insig_by_seg # None
    /\ FloatCmp(FloatOfInt(CountLonger(seg_list, args.keep_insig_by_seg[2])),
                args.keep_insig_by_seg[1]) > 0

\* the condition of the yield, with the threshold compared whenever it is
\* not None
YieldedNotNone(args, estimate, seg_list) ==
    \/ estimate.reject
    \/ args.keep_insignificant
    \/ args.insig_threshold # None
        /\ FloatGe(estimate.cm, args.insig_threshold[1])
    \/ KeepBySeg(args, seg_list)

\* if est.reject or args.keep_insignificant or
\*         (args.insig_threshold and est.cm >= args.insig_threshold) or
\*         (args.keep_insig_by_seg and keep):
Yielded(args, estimate, seg_list) ==
    \/ estimate.reject
    \/ args.keep_insignificant
    \/ FloatTruthy(args.insig_threshold)
        /\ FloatGe(estimate.cm, args.insig_threshold[1])
    \/ KeepBySeg(args, seg_list)

\* what g gives when gen_estimates, resumed for its next pair, raises in
\* estimate_relation (a list not sorted)
GenRaises == [raises |-> "AssertionError"]

\* the generator filter_estimates resumed once, taken elements of g consumed
\* before: it takes elements of g until it yields one, g is exhausted, or g
\* raises
RECURSIVE filter_estimates(_, _, _)
filter_estimates(args, g, taken) ==
    IF taken = Len(g)
    THEN [taken |-> taken, state |-> "exhausted", yielded |-> None, exc |-> ""]
    ELSE LET item == g[taken + 1]
         IN IF "raises" \in DOMAIN item
            THEN [taken |-> taken, state |-> "raised", yielded |-> None,
                  exc |-> item.raises]
            ELSE IF Yielded(args, item.est, item.seg_list)
            THEN [taken |-> taken + 1, state |-> "suspended",
                  yielded |-> Some(item), exc |-> ""]
            ELSE filter_estimates(args, g, taken + 1)

\* most estimates of a stream
MaxEsts == 2

\* an estimate of gen_estimates and its segments: est.cm is the sum of the
\* lengths
EstOf(reject, centis) ==
    LET seg_list == [i \in 1..Len(centis) |->
                        SharedSegment(i, 100, 200, centis[i])]
    IN [est |-> [reject |-> reject, cm |-> FloatSum(Lengths(seg_list))],
        seg_list |-> seg_list]

\* what g can give: a significant pair, insignificant pairs sharing 11 cM in
\* three segments and 12 cM in one, and an exception
EstPool ==
    { EstOf(TRUE, <<300>>),
      EstOf(FALSE, <<300, 300, 500>>),
      EstOf(FALSE, <<1200>>),
      GenRaises }

RECURSIVE StreamsUpTo(_)
StreamsUpTo(n) ==
    IF n = 0 THEN {<<>>}
    ELSE LET shorter == StreamsUpTo(n - 1)
         IN shorter \cup
            {Append(q, x) : q \in {w \in shorter : Len(w) = n - 1},
                            x \in EstPool}

\* --insig-threshold: unset, 0, 11 and 12.5 cM
InsigThresholds ==
    {None, Some(FloatZero), Some(FloatOfInt(11)), Some(FloatOfCenti(1250))}

\* --keep-insig-by-seg n l: unset, more than 0 segments above 4 cM, more
\* than 1 and more than 2 segments above 2.5 cM
KeepBySegs ==
    {None, <<FloatOfInt(0), FloatOfInt(4)>>,
     <<FloatOfInt(1), FloatOfCenti(250)>>,
     <<FloatOfInt(2), FloatOfCenti(250)>>}

CallsInit ==
    /\ LabIdle
    /\ SegIdle
    /\ segs = <<>>
    /\ EstIdle
    /\ RelIdle
    /\ PipeIdle
    /\ DbIdle

\* pair_dict = get_pair_dict(args.matchfile, args.t, args.user, args.H,
\*                           args.nomask, args.merge_segs)
CallGetPairDict ==
    \E path \in MatchFiles, t_ \in Thresholds, user \in Users,
       nomask \in BOOLEAN, merge_len \in DictMergeLens :
        Called("get_pair_dict", <<path, t_, user, nomask, merge_len>>,
               get_pair_dict(path, t_, user, nomask, merge_len))

\* g = filter_estimates(args, g): the generator is created and nothing of g
\* is taken yet; result.val is what the consumer has received
CallFilterEstimates ==
    \E g \in StreamsUpTo(MaxEsts), keep_insignificant \in BOOLEAN,
       insig_threshold \in InsigThresholds, keep_insig_by_seg \in KeepBySegs :
        LET args == [keep_insignificant |-> keep_insignificant,
                     insig_threshold |-> insig_threshold,
                     keep_insig_by_seg |-> keep_insig_by_seg]
        IN /\ call = None
           /\ call' = Some([name |-> "filter_estimates", args |-> <<args, g>>,
                            taken |-> 0, state |-> "created",
                            result |-> Returned(<<>>)])
           /\ UNCHANGED <<labVars, segVars, inVars, estVars, ha, llr, pipeVars, dbVars>>

\* for est, seg_list in g: the consumer asks for the next estimate and the
\* generator runs to its next yield, to its end, or to the exception of g
NextEstimate ==
    /\ call # None
    /\ call[1].name = "filter_estimates"
    /\ call[1].state \in {"created", "suspended"}
    /\ LET r == filter_estimates(call[1].args[1], call[1].args[2], call[1].taken)
       IN call' = Some([call[1] EXCEPT
                          !.taken = r.taken,
                          !.state = r.state,
                          !.result = [exc |-> r.exc,
                                      at |-> IF r.exc = "" THEN "" ELSE "gen_estimates",
                                      val |-> call[1].result.val \o r.yielded]])
    /\ UNCHANGED <<labVars, segVars, inVars, estVars, ha, llr, pipeVars, dbVars>>

CallsNext == CallGetPairDict \/ CallFilterEstimates \/ NextEstimate

SpecCalls == CallsInit /\ [][CallsNext]_vars

----------------------------------------------------------------------------
(* dbmanager.py: Database and DbManager *)

\* most calls inside one with block
MaxBodyCalls == 2

\* the rows of one soft_delete update
SoftDeleteBatch == 900

\* the rows of one delete
DeleteBatch == 999

\* the results of a database that more than one batch is needed for
ManyResults == 1000

\* the primary key of a new row: one above the largest of the table
NextId(rows) == IF rows = <<>> THEN 1 ELSE rows[Len(rows)].id + 1

\* the rows of est.alts: {'result_id': result_id, 'd': alt[0], 'LL': alt[2]}
LikelihoodRows(rows, result_id, alts) ==
    [i \in 1..Len(alts) |->
        [id |-> NextId(rows) + i - 1, result_id |-> result_id,
         d |-> alts[i][1], LL |-> alts[i][3]]]

\* the rows of seg_list: chromosome, bp_start and bp_end of each segment
SegmentRows(rows, result_id, seg_list) ==
    [i \in 1..Len(seg_list) |->
        [id |-> NextId(rows) + i - 1, result_id |-> result_id,
         chromosome |-> seg_list[i].chrom, bp_start |-> seg_list[i].bpStart,
         bp_end |-> seg_list[i].bpEnd]]

\* the body of the loop of Database.insert for one estimate, once est.rel_est
\* was read: one Result row, its Likelihood rows and its Segment rows
InsertRows(tb, e, seg_list) ==
    LET result_id == NextId(tb.result)
        row == [id |-> result_id, indv1 |-> e.indv1, indv2 |-> e.indv2,
                d_est |-> IF e.reject THEN e.d ELSE None,
                rel_est1 |-> IF e.rel_est # None THEN Some(e.rel_est[1]) ELSE None,
                rel_est2 |-> IF e.rel_est # None THEN Some(e.rel_est[2]) ELSE None,
                n |-> Len(e.s), total_cM |-> FloatSum(e.s), deleted |-> FALSE]
    IN [result |-> Append(tb.result, row),
        likelihood |-> tb.likelihood \o LikelihoodRows(tb.likelihood, result_id, e.alts),
        segment |-> tb.segment \o SegmentRows(tb.segment, result_id, seg_list)]

\* for i in range(len(ests)): an estimate without the attribute rel_est ends
\* the loop with AttributeError, the rows of the estimates before it written
RECURSIVE InsertLoop(_, _, _, _)
InsertLoop(tb, ests, seg_lists, i) ==
    IF i > Len(ests) THEN [tables |-> tb, ret |-> None, exc |-> ""]
    ELSE IF "rel_est" \notin DOMAIN ests[i]
         THEN [tables |-> tb, ret |-> None, exc |-> "AttributeError"]
         ELSE InsertLoop(InsertRows(tb, ests[i], seg_lists[i]), ests, seg_lists, i + 1)

\* Database.insert(ests, seg_lists); ests[0] of an empty list is an IndexError
Database_insert(tb, ests, seg_lists) ==
    IF ests = <<>> \/ seg_lists = <<>> \/ seg_lists[1] = <<>>
    THEN [tables |-> tb, ret |-> None, exc |-> "IndexError"]
    ELSE InsertLoop(tb, ests, seg_lists, 1)

\* the ids select returns for one pair "indv1:indv2": the rows not deleted
\* with the two individuals on either side
LiveKeys(rows, p) ==
    LET hit(r) == /\ ~r.deleted
                  /\ \/ r.indv1 = p[1] /\ r.indv2 = p[2]
                     \/ r.indv1 = p[2] /\ r.indv2 = p[1]
        matching == SelectSeq(rows, hit)
    IN [i \in 1..Len(matching) |-> matching[i].id]

\* for p in pairs: ... keys.append(row[id])
RECURSIVE SoftDeleteKeys(_, _, _, _)
SoftDeleteKeys(rows, pairs, i, keys) ==
    IF i > Len(pairs) THEN keys
    ELSE SoftDeleteKeys(rows, pairs, i + 1, keys \o LiveKeys(rows, pairs[i]))

\* a slice that takes the first i keys where the code deletes the last i
FirstKeys(keys, i) == SubSeq(keys, 1, i)

\* keys[-i:]
LastKeys(keys, i) == SubSeq(keys, Len(keys) - i + 1, Len(keys))

\* the set of the ids of a batch
KeySet(batch) == {batch[k] : k \in 1..Len(batch)}

\* the number of rows a statement with id IN batch touches
RowCount(rows, batch) ==
    LET ids == KeySet(batch)
    IN Cardinality({k \in 1..Len(rows) : rows[k].id \in ids})

\* update().where(id.in_(keys[-i:])).values(deleted=True)
MarkDeleted(rows, batch) ==
    LET ids == KeySet(batch)
    IN [k \in 1..Len(rows) |->
           IF rows[k].id \in ids THEN [rows[k] EXCEPT !.deleted = TRUE] ELSE rows[k]]

\* while remainder > 0: i = 900 if remainder > 900 else remainder; ...
RECURSIVE SoftDeleteLoop(_, _, _)
SoftDeleteLoop(rows, keys, n) ==
    IF keys = <<>> THEN [rows |-> rows, n |-> n]
    ELSE LET i == IF Len(keys) > SoftDeleteBatch THEN SoftDeleteBatch ELSE Len(keys)
             batch == LastKeys(keys, i)
         IN SoftDeleteLoop(MarkDeleted(rows, batch),
                           SubSeq(keys, 1, Len(keys) - i),
                           n + RowCount(rows, batch))

\* Database.soft_delete(pairs); a pair is <<indv1, indv2>>, p.split(":")
soft_delete(tb, pairs) ==
    LET done == SoftDeleteLoop(tb.result, SoftDeleteKeys(tb.result, pairs, 1, <<>>), 0)
    IN [tables |-> [tb EXCEPT !.result = done.rows], ret |-> Some(done.n), exc |-> ""]

\* select([Result]).where(Result.deleted): the ids of the rows marked deleted
DeletedKeys(rows) ==
    LET marked == SelectSeq(rows, LAMBDA r : r.deleted)
    IN [i \in 1..Len(marked) |-> marked[i].id]

\* delete().where(id.in_(batch)) on the result table
WithoutIds(rows, batch) ==
    LET ids == KeySet(batch)
    IN SelectSeq(rows, LAMBDA r : r.id \notin ids)

\* delete().where(result_id.in_(batch)) on the likelihood and segment tables
WithoutResultIds(rows, batch) ==
    LET ids == KeySet(batch)
    IN SelectSeq(rows, LAMBDA r : r.result_id \notin ids)

\* while remainder > 0: i = 999 if remainder > 999 else remainder; the three
\* deletes of one batch, each adding its rowcount
RECURSIVE DeleteLoop(_, _, _)
DeleteLoop(tb, keys, n_deleted) ==
    IF keys = <<>> THEN [tables |-> tb, n_deleted |-> n_deleted]
    ELSE LET i == IF Len(keys) > DeleteBatch THEN DeleteBatch ELSE Len(keys)
             batch == LastKeys(keys, i)
             r == WithoutIds(tb.result, batch)
             l == WithoutResultIds(tb.likelihood, batch)
             sg == WithoutResultIds(tb.segment, batch)
         IN DeleteLoop([result |-> r, likelihood |-> l, segment |-> sg],
                       SubSeq(keys, 1, Len(keys) - i),
                       [r |-> n_deleted.r + Len(tb.result) - Len(r),
                        l |-> n_deleted.l + Len(tb.likelihood) - Len(l),
                        s |-> n_deleted.s + Len(tb.segment) - Len(sg)])

\* Database.delete()
delete(tb) ==
    LET done == DeleteLoop(tb, DeletedKeys(tb.result), [r |-> 0, l |-> 0, s |-> 0])
    IN [tables |-> done.tables, ret |-> Some(done.n_deleted), exc |-> ""]

\* __exit__ with every exit committing
ExitCommitsAlways(exc_type) == TRUE

\* if exc_type is not None: self.db.rollback() else: self.db.commit()
ExitCommits(exc_type) == exc_type = ""

\* an Estimate of the pair as estimate_relation returns it: two segments, the
\* degrees 1 and 2 tested
EstimateOf(pair, reject) ==
    Estimate(pair, <<None, None>>, 2, reject, -10, -5, None, None,
             <<<<1, 1, -7>>, <<2, 2, -5>>>>,
             <<FloatOfCenti(300), FloatOfCenti(500)>>, 2, 100).val

\* the segments of a pair
DbSegs == <<SharedSegment(1, 100, 200, 300), SharedSegment(2, 100, 200, 500)>>

\* the arguments of an insert: the Estimates of the pairs A:B, significant,
\* and A:C, not significant, each alone and both, and no Estimate
InsertArgs ==
    LET ab == EstimateOf(<<"A", "B">>, TRUE)
        ac == EstimateOf(<<"A", "C">>, FALSE)
    IN { <<ab>>, <<ac>>, <<ab, ac>>, <<>> }

\* the pairs of a soft_delete
SoftDeleteArgs ==
    { <<<<"A", "B">>>>, <<<<"B", "A">>>>, <<<<"A", "C">>>>,
      <<<<"A", "B">>, <<"A", "C">>>>, <<>> }

\* a database holding one result for each entry of rs = <<indv1, indv2,
\* deleted>>, each with two likelihoods and two segments
RECURSIVE DatabaseOf(_, _, _)
DatabaseOf(rs, i, tb) ==
    IF i > Len(rs) THEN tb
    ELSE LET result_id == NextId(tb.result)
             row == [id |-> result_id, indv1 |-> rs[i][1], indv2 |-> rs[i][2],
                     d_est |-> Some(1), rel_est1 |-> None, rel_est2 |-> None,
                     n |-> Len(DbSegs), total_cM |-> FloatSum(Lengths(DbSegs)),
                     deleted |-> rs[i][3]]
         IN DatabaseOf(rs, i + 1,
                [result |-> Append(tb.result, row),
                 likelihood |-> tb.likelihood
                     \o LikelihoodRows(tb.likelihood, result_id,
                                       <<<<1, 1, -7>>, <<2, 2, -5>>>>),
                 segment |-> tb.segment \o SegmentRows(tb.segment, result_id, DbSegs)])

\* ManyResults results of A:B, all deleted or none, each with one likelihood
\* and one segment, and one result of A:C that is not deleted
ManyTables(deleted) ==
    [result |->
        [i \in 1..(ManyResults + 1) |->
            [id |-> i, indv1 |-> "A",
             indv2 |-> IF i <= ManyResults THEN "B" ELSE "C",
             d_est |-> Some(1), rel_est1 |-> None, rel_est2 |-> None,
             n |-> 1, total_cM |-> FloatOfCenti(300),
             deleted |-> deleted /\ i <= ManyResults]],
     likelihood |->
        [i \in 1..(ManyResults + 1) |-> [id |-> i, result_id |-> i, d |-> 1, LL |-> -5]],
     segment |->
        [i \in 1..(ManyResults + 1) |->
            [id |-> i, result_id |-> i, chromosome |-> 1, bp_start |-> 100,
             bp_end |-> 200]]]

\* the database a run finds: new, holding one pair, holding deleted and live
\* results, holding a pair stored as B:A, and holding many results, none or
\* all but one of them deleted
Databases ==
    { EmptyTables,
      DatabaseOf(<<<<"A", "B", FALSE>>>>, 1, EmptyTables),
      DatabaseOf(<<<<"A", "B", TRUE>>, <<"A", "B", FALSE>>, <<"A", "C", TRUE>>>>,
                 1, EmptyTables),
      DatabaseOf(<<<<"B", "A", FALSE>>, <<"A", "C", FALSE>>>>, 1, EmptyTables),
      ManyTables(FALSE), ManyTables(TRUE) }

DbInit ==
    /\ LabIdle
    /\ SegIdle
    /\ segs = <<>>
    /\ EstIdle
    /\ RelIdle
    /\ PipeIdle
    /\ stored \in Databases
    /\ conn = "none"
    /\ trans = "none"
    /\ tables = EmptyTables
    /\ body = NoBody

\* main: with DbManager(args.D, skip_soft_delete=args.skip_soft_delete);
\* DbManager.__init__(self, path, shared_pool=False) takes no such argument
MainDbManager ==
    /\ conn = "none"
    /\ body.exc = ""
    /\ body' = [body EXCEPT !.last = "DbManager", !.exc = "TypeError"]
    /\ UNCHANGED <<labVars, segVars, inVars, estVars, relVars, pipeVars,
                   stored, conn, trans, tables>>

\* DbManager.__enter__: Database(path), then connect(): self.conn =
\* self.engine.connect(); self.trans = self.conn.begin()
Enter ==
    /\ conn = "none"
    /\ body.exc = ""
    /\ conn' = "open"
    /\ trans' = "active"
    /\ tables' = stored
    /\ UNCHANGED <<labVars, segVars, inVars, estVars, relVars, pipeVars, stored, body>>

\* a call of the with block: what it leaves in the tables, what it returns
\* and the exception that ends the block
BodyCall(name, args, done) ==
    /\ conn = "open"
    /\ body.exc = ""
    /\ body.calls < MaxBodyCalls
    /\ tables' = done.tables
    /\ body' = [calls |-> body.calls + 1, last |-> name, args |-> args,
                ret |-> done.ret, exc |-> done.exc]
    /\ UNCHANGED <<labVars, segVars, inVars, estVars, relVars, pipeVars,
                   stored, conn, trans>>

\* db.insert(ests, seg_lists)
Insert ==
    \E ests \in InsertArgs :
        BodyCall("insert", ests,
                 Database_insert(tables, ests, [i \in 1..Len(ests) |-> DbSegs]))

\* db.soft_delete(pairs)
SoftDelete ==
    \E pairs \in SoftDeleteArgs : BodyCall("soft_delete", pairs, soft_delete(tables, pairs))

\* db.delete()
Delete == BodyCall("delete", None, delete(tables))

\* DbManager.__exit__: rollback or commit, then self.db.close()
Exit ==
    /\ conn = "open"
    /\ IF ExitCommits(body.exc)
       THEN trans' = "committed" /\ stored' = tables
       ELSE trans' = "rolled back" /\ stored' = stored
    /\ conn' = "closed"
    /\ tables' = EmptyTables
    /\ UNCHANGED <<labVars, segVars, inVars, estVars, relVars, pipeVars, body>>

DbNext ==
    \/ MainDbManager
    \/ Enter
    \/ Insert
    \/ SoftDelete
    \/ Delete
    \/ Exit

SpecDb == DbInit /\ [][DbNext]_vars

----------------------------------------------------------------------------
(* Properties *)

LastOp == ops[Len(ops)]
E == est[1]
PrecondsHold == outcome.status # "pending" /\ outcome.at \notin {"sorted", "_Fp"}

\* C1: an Estimate returned with ci and reject set reports a point estimate d
\* inside its confidence interval, lower_d <= d <= upper_d.
C1_PointEstimateInCI ==
    (outcome.status = "returned" /\ ci /\ E.reject) =>
        /\ E.lower_d # None /\ E.upper_d # None
        /\ E.lower_d[1] <= E.d[1] /\ E.d[1] <= E.upper_d[1]

\* C2: masking an already masked list with the same t changes nothing: the
\* same segments with the same lengths, bpStart and bpEnd come back.
C2_MaskIdempotent ==
    (Len(ops) >= 2 /\ LastOp.name = "mask" /\ ops[Len(ops) - 1].name = "mask") =>
        segs = prevSegs

\* C3: potential_relationship(d, A, B, yA, yB) and potential_relationship(d,
\* B, A, yB, yA) are None together, and otherwise the one is (x, y) exactly
\* when the other is (y, x).
C3_LabelSymmetry ==
    (fwd # Pending /\ rev # Pending) =>
        /\ fwd = None <=> rev = None
        /\ fwd # None => rev = <<fwd[2], fwd[1]>>

\* C4: every call that gets as far as selecting a d in 1..dmax produces an
\* Estimate, and its labels are populated exactly when reject is True.
C4_LabelsIffReject ==
    PrecondsHold =>
        /\ outcome.status = "returned"
        /\ (E.rel_est1 # None /\ E.rel_est2 # None) <=> E.reject

MergedLast == ops # <<>> /\ LastOp.name = "merge"

\* C5, as claimed: merge_segments never returns more segments than it was
\* given, and the lengths of its output sum to exactly the sum of the lengths
\* of its input, for every merge_len.
C5_MergeConservesExactly ==
    MergedLast =>
        /\ Len(segs) <= Len(prevSegs)
        /\ FloatSum(Lengths(segs)) = FloatSum(Lengths(prevSegs))

\* sys.float_info.epsilon = 2^(1 - mant_dig), and abs(x)
FloatEpsilon ==
    [neg |-> FALSE, m |-> BigShl(<<1>>, MantDig - 1), e |-> 0 - 2 * (MantDig - 1)]
FloatAbs(x) == [x EXCEPT !.neg = FALSE]

\* C5, amended: merge_segments never returns more segments than it was
\* given, and the sum of its output lengths is the sum of its input lengths up
\* to the rounding of the float additions: the two sums differ by at most
\* len(input) * epsilon times the input sum.
C5_MergeMonotone ==
    MergedLast =>
        LET total_in == FloatSum(Lengths(prevSegs))
            total_out == FloatSum(Lengths(segs))
            slack == FloatMul(FloatMul(IntTrueDiv(Len(prevSegs), 1), FloatEpsilon),
                              total_in)
        IN /\ Len(segs) <= Len(prevSegs)
           /\ FloatLe(FloatAbs(FloatSub(total_out, total_in)), slack)

\* two of three segments merged, and the sums differ in the last place
C5_Witness ==
    /\ MergedLast
    /\ Len(prevSegs) = 3 /\ Len(segs) = 2
    /\ FloatSum(Lengths(segs)) # FloatSum(Lengths(prevSegs))

\* C6: merge_segments with merge_len <= 0 returns every input segment
\* unmerged: the same count, lengths and coordinates.
C6_NoMergeAtOrBelowZero ==
    (MergedLast /\ LastOp.merge_len <= 0) =>
        /\ Len(segs) = Len(prevSegs)
        /\ {segs[i] : i \in 1..Len(segs)} = {prevSegs[i] : i \in 1..Len(prevSegs)}

Unsorted(s) == \E i \in 1..(Len(s) - 1) : ~FloatLe(s[i], s[i + 1])

\* C7: estimate_relation raises and returns no Estimate when some s[i] >
\* s[i+1]; the sortedness check never raises on a sorted s; and the list is
\* not sorted or corrected on the way: a returned Estimate holds s as given.
C7_UnsortedRaises ==
    outcome.status # "pending" =>
        LET s == Lengths(segs)
        IN /\ Unsorted(s) => /\ outcome.status = "raised"
                             /\ outcome.exc = "AssertionError"
                             /\ est = None
           /\ ~Unsorted(s) => outcome.at # "sorted"
           /\ outcome.status = "returned" => E.s = s

C7_Witness ==
    /\ outcome.status = "raised" /\ outcome.at = "sorted"
    /\ Unsorted(Lengths(segs))
    /\ est = None

\* C8: a pair rejected at alpha is rejected at every alpha' > alpha, all else
\* equal, with the same selected d, np and p.
C8_MonotonicRejection ==
    (/\ prev # None
     /\ prev[1].outcome.status = "returned"
     /\ prev[1].est[1].reject
     /\ prev[1].alpha < alpha) =>
        /\ outcome.status = "returned"
        /\ E.reject
        /\ E.d = prev[1].est[1].d
        /\ E.np = prev[1].est[1].np
        /\ E.p = prev[1].est[1].p

\* rejected at 0.001 and again at 0.5, with a p that is not 0
C8_Witness ==
    /\ prev # None /\ prev[1].outcome.status = "returned"
    /\ prev[1].est[1].reject /\ prev[1].alpha = 10 /\ alpha = 5000
    /\ outcome.status = "returned" /\ E.reject /\ E.p > 0

TopLL == CHOOSE x \in {mll[d].LL : d \in 1..max_d} :
             \A d \in 1..max_d : mll[d].LL <= x
ArgMax == {d \in 1..max_d : mll[d].LL = TopLL}
FirstArgMax == CHOOSE d \in ArgMax : \A e \in ArgMax : d <= e

\* C9: the reported degree is d* - 1 for d* the smallest d in 1..dmax of
\* maximum MLL, and the per-degree table has one entry per tested d, keyed
\* by d - 1.
C9_FirstMaxDegree ==
    outcome.status = "returned" =>
        /\ E.d = Some(FirstArgMax - 1)
        /\ E.np = mll[FirstArgMax].np
        /\ E.max_LL = TopLL
        /\ DOMAIN E.LLs = {d - 1 : d \in 1..max_d}
        /\ \A d \in 1..max_d : E.LLs[d - 1] = mll[d].LL

\* two d share the maximum, and dmax is beyond the relationship table
C9_Witness ==
    /\ outcome.status = "returned"
    /\ Cardinality(ArgMax) = 2
    /\ max_d > RelMapDmax
    /\ E.d = Some(FirstArgMax - 1)

\* C10: an Estimate whose null hypothesis was not rejected carries no degree,
\* in the Estimate and in the output record built from it; a rejected one
\* carries the numeric degree.
C10_NoDegreeUnlessRejected ==
    outcome.status = "returned" =>
        /\ ~E.reject => /\ E.d = None
                        /\ line # None => line[1].d_est = None
        /\ E.reject => /\ E.d # None
                       /\ line # None => line[1].d_est # None

MaskedLast == ops # <<>> /\ LastOp.name = "mask"

\* the output segments of the last call that lie on the coordinates of p
AtCoords(p) ==
    {j \in 1..Len(segs) : /\ segs[j].chrom = p.chrom
                          /\ segs[j].bpStart = p.bpStart
                          /\ segs[j].bpEnd = p.bpEnd}

\* s lies inside (l - b, h + b); s reaches over both ends of it
InsideBuffered(s, r) == s.bpStart > r[1] - b /\ s.bpEnd < r[2] + b
SpansBuffered(s, r) == s.bpStart <= r[1] - b /\ s.bpEnd >= r[2] + b
\* the region cuts the start of s; the region cuts the end of s
CutsStart(s, r) == r[1] <= s.bpStart /\ s.bpStart <= r[2] /\ r[2] < s.bpEnd
CutsEnd(s, r) == r[2] >= s.bpEnd /\ s.bpEnd >= r[1] /\ r[1] > s.bpStart

RegionsOf(s) == {masked[s.chrom][k] : k \in 1..Len(masked[s.chrom])}

\* C14: whatever t >= 0 is, t = 0 included, a segment that lies fully inside
\* the buffered extent (l - b, h + b) of a masked region of its chromosome
\* is not in the output of mask_input_segs.
C14_ContainedNeverOutput ==
    MaskedLast =>
        \A i \in 1..Len(prevSegs) :
            (\E r \in RegionsOf(prevSegs[i]) : InsideBuffered(prevSegs[i], r))
                => AtCoords(prevSegs[i]) = {}

\* the regions of the chromosome of s that s spans, in table order
SpannedBy(s) == SelectSeq(masked[s.chrom], LAMBDA r : SpansBuffered(s, r))

\* length less the masked cM of every region of the list
RECURSIVE LessMasked(_, _)
LessMasked(length, regions) ==
    IF regions = <<>> THEN length
    ELSE LessMasked(FloatSub(length, regions[1][3]), Tail(regions))

\* C15: a segment that spans the buffered extent of masked regions of its
\* chromosome (and is cut by none) loses the mean masked cM of each of them
\* and keeps its bpStart and bpEnd; it is output when what is left is >= t.
C15_SpanningLosesEachRegion ==
    MaskedLast =>
        \A i \in 1..Len(prevSegs) :
            LET p == prevSegs[i]
                left == LessMasked(p.length, SpannedBy(p))
            IN (/\ SpannedBy(p) # <<>>
                /\ \A r \in RegionsOf(p) : ~CutsStart(p, r) /\ ~CutsEnd(p, r))
               => IF FloatGe(left, t)
                  THEN \E j \in AtCoords(p) : segs[j].length = left
                  ELSE AtCoords(p) = {}

\* region k of the chromosome of s is the one the loop stops at
Applies(s, r) ==
    InsideBuffered(s, r) \/ SpansBuffered(s, r) \/ CutsStart(s, r) \/ CutsEnd(s, r)
StopsAt(s, k) ==
    /\ Applies(s, masked[s.chrom][k])
    /\ \A k2 \in 1..(k - 1) : ~Applies(s, masked[s.chrom][k2])

\* the output segments of the last call with these coordinates
OutAt(chrom, bpStart, bpEnd) ==
    {j \in 1..Len(segs) : /\ segs[j].chrom = chrom
                          /\ segs[j].bpStart = bpStart
                          /\ segs[j].bpEnd = bpEnd}

\* the truncation cases of a masking call, for a given rule of the new length:
\* cut at the start, the segment starts at h; cut at the end, it ends at l;
\* a segment that lies inside or spans the region is not truncated
TruncatesBy(NewLength(_, _, _)) ==
    \A i \in 1..Len(prevSegs) :
        LET p == prevSegs[i]
        IN \A k \in 1..Len(masked[p.chrom]) :
            LET r == masked[p.chrom][k]
                l == r[1]
                h == r[2]
                inner == InsideBuffered(p, r) \/ SpansBuffered(p, r)
                atStart == NewLength(p.length, p.bpEnd - h, p.bpEnd - p.bpStart)
                atEnd == NewLength(p.length, l - p.bpStart, p.bpEnd - p.bpStart)
            IN StopsAt(p, k) =>
                /\ (~inner /\ CutsStart(p, r) /\ FloatGe(atStart, t)) =>
                       \E j \in OutAt(p.chrom, h, p.bpEnd) : segs[j].length = atStart
                /\ (~inner /\ ~CutsStart(p, r) /\ CutsEnd(p, r) /\ FloatGe(atEnd, t)) =>
                       \E j \in OutAt(p.chrom, p.bpStart, l) : segs[j].length = atEnd
                /\ inner => /\ OutAt(p.chrom, h, p.bpEnd) = {}
                            /\ OutAt(p.chrom, p.bpStart, l) = {}

\* length * (num / den), and the same rounded as round(x, 2) rounds
Scaled(length, num, den) == FloatMul(length, IntTrueDiv(num, den))
ScaledToCenti(length, num, den) == FloatRound2(Scaled(length, num, den))

\* C16, as claimed: a segment that a masked region [l, h] cuts at its start
\* comes out starting at h with length * (bpEnd - h) / (bpEnd - bpStart), one
\* cut at its end comes out ending at l with length * (l - bpStart) / (bpEnd -
\* bpStart), and neither happens to a segment that lies inside or spans the
\* buffered region.
C16_TruncationScales == MaskedLast => TruncatesBy(Scaled)

\* C16, amended: as claimed, with the scaled length rounded to two decimals.
C16_TruncationScalesRounded == MaskedLast => TruncatesBy(ScaledToCenti)

\* a segment cut at its start and one cut at its end came out, and rounding
\* changed the length of one of them
C16_Witness ==
    /\ MaskedLast
    /\ \E i, i2 \in 1..Len(prevSegs) :
         LET p == prevSegs[i]
             q == prevSegs[i2]
             r == masked[9][1]
         IN /\ p.chrom = 9 /\ q.chrom = 9
            /\ ~InsideBuffered(p, r) /\ CutsStart(p, r)
            /\ ~InsideBuffered(q, r) /\ CutsEnd(q, r)
            /\ OutAt(9, r[2], p.bpEnd) # {}
            /\ OutAt(9, q.bpStart, r[1]) # {}
            /\ ScaledToCenti(p.length, p.bpEnd - r[2], p.bpEnd - p.bpStart)
                  # Scaled(p.length, p.bpEnd - r[2], p.bpEnd - p.bpStart)

\* C17: after merge_segments every input segment is covered by an output
\* segment of its chromosome, one that starts at or before its bpStart and
\* ends at or after its bpEnd: merging only ever extends the end coordinate,
\* in chains and when one segment lies inside another.
C17_MergedCoversInputs ==
    MergedLast =>
        \A i \in 1..Len(prevSegs) :
            \E j \in 1..Len(segs) :
                /\ segs[j].chrom = prevSegs[i].chrom
                /\ segs[j].bpStart <= prevSegs[i].bpStart
                /\ segs[j].bpEnd >= prevSegs[i].bpEnd

\* C12: reject is True exactly when p < alpha, strictly, for p the upper-tail
\* probability of 2 * max_MLL - 2 * null_LL (alternative minus null); when
\* max_MLL <= null_LL that p is 1 and the null is not rejected at any
\* alpha <= 1.
C12_RejectIffPBelowAlpha ==
    outcome.status = "returned" =>
        /\ E.reject <=> E.p < alpha
        /\ E.p = 10000 - chi2_cdf(2 * TopLL - 2 * null_LL, 2)
        /\ TopLL <= null_LL => E.p = 10000 /\ ~E.reject

\* p equals alpha (both 1) with the best alternative below the null, and the
\* null is kept
C12_Witness ==
    /\ outcome.status = "returned"
    /\ TopLL < null_LL
    /\ E.p = alpha
    /\ ~E.reject

LastCall == call[1]
CalledLast(name) == call # None /\ LastCall.name = name

\* some length of s is below t
SomeBelow(s, t_) == \E i \in 1..Len(s) : FloatCmp(s[i], t_) < 0

\* C11: MLL(n, s, d) on a sorted s of lengths at least t returns (np*, MLL)
\* with 0 <= np* <= n, MLL the largest _LLr(np, n - np, s, d) over np in 0..n,
\* and np* the smallest np whose _LLr is that largest value.
C11_MLLSmallestArgmax ==
    (CalledLast("MLL") /\ ~SomeBelow(LastCall.args[2], ha[1].t)) =>
        LET n == LastCall.args[1]
            d == LastCall.args[3]
            LLr(np) == llr[d][np + 1]
        IN /\ LastCall.result.exc = ""
           /\ LET np == LastCall.result.val[1]
                  max_mll == LastCall.result.val[2]
              IN /\ np \in 0..n
                 /\ \A k \in 0..n : LLr(k) <= max_mll
                 /\ LLr(np) = max_mll
                 /\ \A k \in 0..(np - 1) : LLr(k) < max_mll

\* three segments, every np as likely as any other, and np = 0 is returned
C11_Witness ==
    /\ CalledLast("MLL")
    /\ LastCall.args[1] = 3
    /\ \A k \in 1..4 : llr[LastCall.args[3]][k] = llr[LastCall.args[3]][1]
    /\ LastCall.result.val[1] = 0

\* the maximum lies at np = n alone
C11_WitnessLast ==
    /\ CalledLast("MLL")
    /\ LastCall.args[1] = 3
    /\ LastCall.result.val[1] = 3

\* the d of alts whose test against a model of log-likelihood top does not
\* reject at alpha_: p = 1 - cdf(2 * top - 2 * LL) is not below alpha_
NotRejected(alts, top, alpha_) ==
    {alts[i][1] : i \in {k \in 1..Len(alts) :
                           10000 - chi2_cdf(2 * top - 2 * alts[k][3], 2) >= alpha_}}

SetMin(S) == CHOOSE x \in S : \A y \in S : x <= y
SetMax(S) == CHOOSE x \in S : \A y \in S : x >= y

MinMaxOrNone(S) == IF S = {} THEN <<None, None>> ELSE <<Some(SetMin(S)), Some(SetMax(S))>>

\* C13: likelihood_ratio_CI returns the smallest and the largest of the tested
\* d that the test against the maximum model does not reject, and (None, None)
\* when there is none; estimate_relation reports those bounds when ci is set
\* and the null was rejected, and (None, None) otherwise.
C13_CIIsMinMaxOfNotRejected ==
    /\ CalledLast("likelihood_ratio_CI") =>
           LastCall.result = MinMaxOrNone(NotRejected(LastCall.args[1], LastCall.args[2],
                                                      LastCall.args[3]))
    /\ (CalledLast("estimate_relation") /\ LastCall.result.exc = "") =>
           LET e == LastCall.result.val
           IN <<e.lower_d, e.upper_d>> =
                  IF ci /\ e.reject
                  THEN MinMaxOrNone(NotRejected(e.alts, e.max_LL, LastCall.args[1]))
                  ELSE <<None, None>>

\* the d that are not rejected are 1, 2 and 5, and (1, 5) is returned
C13_Witness ==
    /\ CalledLast("likelihood_ratio_CI")
    /\ NotRejected(LastCall.args[1], LastCall.args[2], LastCall.args[3]) = {1, 2, 5}
    /\ LastCall.result = <<Some(1), Some(5)>>

\* every d is rejected, and (None, None) is returned
C13_WitnessNone ==
    /\ CalledLast("likelihood_ratio_CI")
    /\ NotRejected(LastCall.args[1], LastCall.args[2], LastCall.args[3]) = {}
    /\ LastCall.result = <<None, None>>

\* an estimate with ci set and the null rejected carries bounds
C13_WitnessEstimate ==
    /\ CalledLast("estimate_relation") /\ ci
    /\ LastCall.result.val.reject
    /\ LastCall.result.val.lower_d # None

\* the Poisson mean of both adjustments, (3/4) * c + (3/4) * r: 2 * d * r *
\* (3/4) * (1/4) at d = 2 and 4 * r * ((3/4) * (1/4)) scale r * (3/4) by
\* powers of two
AdjustedMean(calc) ==
    FloatAdd(FloatMul(IntTrueDiv(3, 4), FloatOfInt(calc.c)),
             FloatMul(calc.r, IntTrueDiv(3, 4)))

\* C19: _Fa and _Na use the first-degree formulas exactly when first_deg_adj
\* is set and d = 2, _Na uses the avuncular mean exactly when avuncular_adj is
\* set, d = 3 and the first-degree branch was not taken, and every other
\* (flags, d) gets the generic formulas.
C19_AdjustmentsByFlagAndDegree ==
    /\ CalledLast("_Na") =>
           LET d == LastCall.args[2]
               first == ha[1].first_deg_adj /\ d = 2
               avuncular == ha[1].avuncular_adj /\ d = 3 /\ ~first
               eqn == LastCall.result.eqn
           IN /\ eqn = "Li2014Eqn7" <=> first
              /\ eqn = "Li2014Eqn9" <=> avuncular
              /\ eqn = "Huff2011Eqn8" <=> ~first /\ ~avuncular
              /\ LastCall.result.lambda_ = AdjustedMean(ha[1]) <=> first \/ avuncular
    /\ (CalledLast("_Fa") /\ LastCall.result.exc = "") =>
           LET d == LastCall.args[2]
               first == ha[1].first_deg_adj /\ d = 2
               eqn == LastCall.result.val.eqn
           IN /\ eqn = "Li2014Eqn6" <=> first
              /\ eqn = "Huff2011" <=> ~first
              /\ LastCall.result.val.series_of # FloatZero <=> first

\* both flags set: d = 3 gets the avuncular mean
C19_Witness ==
    /\ CalledLast("_Na")
    /\ ha[1].first_deg_adj /\ ha[1].avuncular_adj
    /\ LastCall.args[2] = 3
    /\ LastCall.result.eqn = "Li2014Eqn9"
    /\ LastCall.result.lambda_ = AdjustedMean(ha[1])

\* both flags set: d = 2 gets the first-degree density
C19_WitnessFa ==
    /\ CalledLast("_Fa")
    /\ ha[1].first_deg_adj /\ ha[1].avuncular_adj
    /\ LastCall.args[2] = 2
    /\ LastCall.result.exc = ""
    /\ LastCall.result.val.eqn = "Li2014Eqn6"

\* the mean masked cM of every table entry, chromosome by chromosome, in
\* hundredths
AllMaskedCenti ==
    <<995, 653, 916, 504, 796, 815, 758, 1046, 929, 618, 566, 623, 691, 2082>>

RECURSIVE SumInts(_)
SumInts(q) == IF q = <<>> THEN 0 ELSE q[1] + SumInts(Tail(q))

\* the float sum of those entries in table order, and that sum in Morgans
SumOfAllMasked ==
    FloatSum([k \in 1..Len(AllMaskedCenti) |-> FloatOfCenti(AllMaskedCenti[k])])

SumOfAllMaskedMorgans == FloatDivInt(SumOfAllMasked, 100)

MaskedTableIs14Entries ==
    /\ Len(AllMaskedCenti) = 14
    /\ SumInts(AllMaskedCenti) = 11992
    /\ total_masked = SumOfAllMasked
    /\ FloatRound2(SumOfAllMasked) = FloatOfCenti(11992)

\* C20: the r of a Relation is r - total_masked() / 100 when masking is
\* enabled and r itself with nomask, for total_masked() the sum of the mean
\* masked cM of the 14 table entries, 119.92 cM.
C20_EffectiveRecombinationRate ==
    ha # None =>
        /\ MaskedTableIs14Entries
        /\ ha[1].r = IF ha[2].nomask THEN ha[2].r
                     ELSE FloatSub(ha[2].r, SumOfAllMaskedMorgans)

\* masking enabled: the rate is below the r given, by more than one unit
C20_Witness ==
    /\ ha # None
    /\ ~ha[2].nomask
    /\ FloatCmp(ha[1].r, FloatSub(ha[2].r, FloatOfInt(1))) < 0
    /\ FloatCmp(ha[1].r, FloatSub(ha[2].r, FloatOfInt(2))) > 0

\* nomask: the rate is the r given
C20_WitnessNomask == ha # None /\ ha[2].nomask /\ ha[1].r = ha[2].r

\* the estimate a call of estimate_relation returned on a calculator with
\* first_deg_adj set, when the first maximum of the MLLs is at the
\* first-degree d
FirstDegreeEstimate ==
    /\ CalledLast("estimate_relation")
    /\ ha[1].first_deg_adj
    /\ LastCall.result.exc = ""
    /\ MaxAlt(LastCall.result.val.alts)[1] = FirstDegreeD

\* the best alternative not next to the first-degree d, and whether the
\* likelihood-ratio sub-test fails to set the maximum apart from it
BestNonAdjacent == MaxAlt(NonAdjacent(LastCall.result.val.alts, FirstDegreeD))

SubTestDoesNotSupport ==
    /\ NonAdjacent(LastCall.result.val.alts, FirstDegreeD) # <<>>
    /\ ~LL_ratio_test(MaxAlt(LastCall.result.val.alts)[3], BestNonAdjacent[3],
                      LastCall.args[1])

\* C18: with first_deg_adj set and the maximum MLL at the first-degree d,
\* estimate_relation compares it with the best non-adjacent alternative and
\* returns that alternative when the sub-test does not support the maximum.
C18_SecondaryComparisonFallsBack ==
    (FirstDegreeEstimate /\ SubTestDoesNotSupport) =>
        /\ LastCall.result.val.d = Some(BestNonAdjacent[1] - 1)
        /\ LastCall.result.val.max_LL = BestNonAdjacent[3]

\* C18 as the code has it: with first_deg_adj set and the maximum MLL at the
\* first-degree d, estimate_relation makes no secondary comparison; it
\* returns that d, its np and its MLL, and tests it against the null only.
C18_NoSecondaryComparison ==
    FirstDegreeEstimate =>
        LET e == LastCall.result.val
            top == MaxAlt(e.alts)
        IN /\ e.d = Some(FirstDegreeD - 1)
           /\ e.np = top[2]
           /\ e.max_LL = top[3]
           /\ e.reject = (LL_ratio_p(top[3], e.null_LL) < LastCall.args[1])

\* the maximum is at the first-degree d, a non-adjacent alternative is not
\* significantly less likely, and the first-degree d is returned, rejecting
\* the null
C18_Witness ==
    /\ FirstDegreeEstimate
    /\ SubTestDoesNotSupport
    /\ LastCall.result.val.reject
    /\ LastCall.result.val.d = Some(FirstDegreeD - 1)
    /\ BestNonAdjacent[1] > FirstDegreeD + 1

\* what the table gives for bucket g of d: the labels of g and of -g, or for
\* d < 5 and an odd g the two joined by " or ", the same on both sides
LabelsOfBucket(d, g) ==
    LET bin_map == rel_map[d]
        joined == bin_map[g] \o " or " \o bin_map[-g]
    IN IF d < 5 /\ g % 2 = 1 THEN <<joined, joined>>
       ELSE <<bin_map[g], bin_map[-g]>>

\* the bucket taken when a birth year is unknown
DefaultBucket(d) == IF d % 2 = 0 THEN 0 ELSE 1

DefaultBucketInTable ==
    \A d \in 1..RelMapDmax : DefaultBucket(d) \in DOMAIN rel_map[d]

\* the years Estimate.__init__ takes for d are the same whichever birth year
\* is missing and whatever the other one is
YearGivenIgnored(d) ==
    \A y \in Years :
        /\ LabelYears(<<None, Some(y)>>, d) = LabelYears(<<None, None>>, d)
        /\ LabelYears(<<Some(y), None>>, d) = LabelYears(<<None, None>>, d)

\* C21: when a birth year of a rejected pair is unknown, its labels are those
\* of bucket 0 for an even d and of bucket 1 for an odd d, whatever year was
\* given; that bucket is in the table for every d in 1..20, so the call
\* returns an Estimate with labels.
C21_DefaultBucketByParity ==
    (/\ PrecondsHold
     /\ dob[1] = None \/ dob[2] = None
     /\ FirstArgMax <= RelMapDmax) =>
        /\ DefaultBucketInTable
        /\ YearGivenIgnored(FirstArgMax)
        /\ outcome.status = "returned"
        /\ E.reject =>
              LET labels == LabelsOfBucket(FirstArgMax, DefaultBucket(FirstArgMax))
              IN /\ E.rel_est1 = Some(labels[1])
                 /\ E.rel_est2 = Some(labels[2])

\* no birth year is known, as in every call of gen_estimates, and an odd d
\* of 5 is labelled by bucket 1
C21_Witness ==
    /\ outcome.status = "returned" /\ E.reject
    /\ dob = <<None, None>>
    /\ FirstArgMax = 5
    /\ E.rel_est1 = Some("1st Cousin Once Removed")

\* both unknown and an even d: bucket 0
C21_WitnessEven ==
    /\ outcome.status = "returned" /\ E.reject
    /\ dob = <<None, None>>
    /\ FirstArgMax = RelMapDmax
    /\ E.rel_est1 = Some("9th Cousin")

\* the generation bucket of a call: 0 for d = 0, and otherwise the g with
\* 30 g <= dob2 - dob1 + 15 < 30 (g + 1)
BucketOfCall ==
    IF lab.d = 0 THEN 0
    ELSE CHOOSE g \in -4..4 :
            /\ YrPerGen * g <= lab.y2 - lab.y1 + 15
            /\ lab.y2 - lab.y1 + 15 < YrPerGen * (g + 1)

\* g is a bucket of d: d is in 0..20, |g| <= d and g has the parity of d
IsBucket(d, g) ==
    /\ d \in 0..RelMapDmax
    /\ g <= d /\ -g <= d
    /\ (d - g) % 2 = 0

\* the buckets of d are the keys of the table
BucketsAreTableKeys ==
    \A d \in 0..RelMapDmax : DOMAIN rel_map[d] = {g \in -d..d : IsBucket(d, g)}

\* C22: potential_relationship returns None exactly when d is outside 0..20
\* or g is not a bucket of d; for d < 5 and an odd bucket g it returns
\* "label(g) or label(-g)" on both sides, and for every other bucket the pair
\* (label(g), label(-g)).
C22_LabelsOfBucketOrNone ==
    fwd # Pending =>
        /\ BucketsAreTableKeys
        /\ fwd = None <=> ~IsBucket(lab.d, BucketOfCall)
        /\ IsBucket(lab.d, BucketOfCall) => fwd = LabelsOfBucket(lab.d, BucketOfCall)

\* d = 3 and the second individual a generation older: the joined label
C22_Witness ==
    /\ lab.d = 3 /\ BucketOfCall = -1
    /\ fwd = <<"Aunt/Uncle or Niece/Nephew", "Aunt/Uncle or Niece/Nephew">>

\* an odd bucket of d = 5 gives two labels
C22_WitnessPair ==
    /\ lab.d = 5 /\ BucketOfCall = 1
    /\ fwd = <<"1st Cousin Once Removed", "1st Cousin Once Removed">>

\* None: a bucket of the right parity beyond d, one of the wrong parity, and
\* a d beyond the table
C22_WitnessBeyond == lab.d = 1 /\ BucketOfCall = 3 /\ fwd = None
C22_WitnessParity == lab.d = 4 /\ BucketOfCall = 1 /\ fwd = None
C22_WitnessNoRow == lab.d = RelMapDmax + 1 /\ BucketOfCall = 1 /\ fwd = None

\* C23: Background.LL(n, s) and Relation.MLL(n, s, d) raise and return no
\* value when some length of s is below t, and do not raise on that check
\* when every length is at least t.
C23_BelowThresholdRaises ==
    /\ CalledLast("LL") =>
          LastCall.result = IF SomeBelow(LastCall.args[2], h0.t)
                            THEN [exc |-> "AssertionError", at |-> "_Fp", val |-> None]
                            ELSE [exc |-> "", at |-> "", val |-> null_LL]
    /\ CalledLast("MLL") =>
          /\ LastCall.result.exc # "" <=> SomeBelow(LastCall.args[2], ha[1].t)
          /\ LastCall.result.exc # "" => /\ LastCall.result.exc = "AssertionError"
                                         /\ LastCall.result.at = "_Fa"
                                         /\ LastCall.result.val = None
          /\ LastCall.result.exc = "" => Len(LastCall.result.val) = 2

\* Relation.MLL raises on a list whose last length is below t
C23_Witness ==
    /\ CalledLast("MLL")
    /\ LastCall.args[2] = <<FloatOfCenti(300), FloatOfCenti(249)>>
    /\ LastCall.result.exc = "AssertionError"

\* Background.LL raises on a list whose first length is below t
C23_WitnessLL ==
    /\ CalledLast("LL")
    /\ LastCall.args[2] = <<FloatOfCenti(249), FloatOfCenti(300)>>
    /\ LastCall.result.exc = "AssertionError"

\* both return on a list with a length at t
C23_WitnessAtT ==
    /\ call # None /\ LastCall.name \in {"LL", "MLL"}
    /\ LastCall.args[2] = <<FloatOfCenti(250), FloatOfCenti(300)>>
    /\ LastCall.result.exc = ""

\* the calls of the run that were left
Done == {i \in 1..Len(runs) : runs[i].pc = "done"}

\* the calls made for one pair all returned the same
SameResultPerPair ==
    \A i, j \in Done :
        runs[i].pair = runs[j].pair => runs[i].result = runs[j].result

\* the Estimate of a call is that of its pair: the lengths of the pair's
\* segments, the likelihoods of that list and the largest of them
EstimateOfItsPair ==
    \A i \in Done :
        LET s == Lengths(pair_dict[runs[i].pair])
            e == runs[i].result[1].val
        IN /\ runs[i].result[1].exc = ""
           /\ e.pair = runs[i].pair
           /\ e.s = s
           /\ e.null_LL = like[s].null_LL
           /\ e.alts = [d \in 1..max_d |-> <<d, like[s].mll[d].np, like[s].mll[d].LL>>]
           /\ \A d \in 1..max_d : like[s].mll[d].LL <= e.max_LL
           /\ e.reject = (LL_ratio_p(e.max_LL, like[s].null_LL) < alpha)

\* C24: no statement of estimate_relation changes h0, ha, the segment lists
\* or the list s of a call, and every evaluation of a pair returns the same
\* Estimate, that of the pair's own list and likelihoods, whatever was
\* evaluated before it, in whatever order, and whatever other calls were in
\* progress between its statements.
C24_EstimateIndependentOfOrder ==
    [][/\ h0' = h0 /\ ha' = ha /\ pair_dict' = pair_dict
       /\ \A i \in 1..Len(runs) : runs'[i].s = runs[i].s /\ runs'[i].pair = runs[i].pair
       /\ SameResultPerPair'
       /\ EstimateOfItsPair']_vars

\* a pair evaluated first and third with the same significant Estimate; the
\* call for the other pair, with other likelihoods, was begun before the
\* third and is still in its loop
C24_Witness ==
    /\ Len(runs) = 3
    /\ runs[1].pair = runs[3].pair /\ runs[2].pair # runs[1].pair
    /\ runs[1].pc = "done" /\ runs[3].pc = "done"
    /\ runs[1].result[1].exc = "" /\ runs[1].result[1].val.reject
    /\ runs[3].result = runs[1].result
    /\ runs[2].pc = "alts" /\ Len(runs[2].alts) = 1
    /\ like[runs[2].s] # like[runs[1].s]

\* three calls left, the first and the third for one pair, and the Estimate
\* of the other pair differs in more than the pair and the list
C24_WitnessAllLeft ==
    /\ Done = 1..3
    /\ runs[1].pair = runs[3].pair /\ runs[2].pair # runs[1].pair
    /\ runs[3].result = runs[1].result
    /\ runs[2].result[1].val.null_LL # runs[1].result[1].val.null_LL
    /\ runs[2].result[1].val.reject # runs[1].result[1].val.reject

\* a call of get_pair_dict that returned, its arguments and its dictionary
DictReturned == CalledLast("get_pair_dict") /\ LastCall.result.exc = ""
DictPath == LastCall.args[1]
DictT == LastCall.args[2]
DictUser == LastCall.args[3]
DictNomask == LastCall.args[4]
DictMergeLen == LastCall.args[5]
Dict == LastCall.result.val

\* the two identifiers of a segment or line, the smaller in string order
\* first, and the key "a:b" made of them
Lo(x) == IF StrLess(x.indivID2, x.indivID1) THEN x.indivID2 ELSE x.indivID1
Hi(x) == IF StrLess(x.indivID2, x.indivID1) THEN x.indivID1 ELSE x.indivID2
KeyOf(x) == Lo(x) \o Colon \o Hi(x)

\* the lines get_pair_dict reads on: long enough and, with a user, his
LineKept(ln) ==
    /\ FloatCmp(FloatOfCenti(ln.centi), DictT) >= 0
    /\ DictUser # None => DictUser \in {ln.indivID1, ln.indivID2}

\* C25: every segment of get_pair_dict's result is under the key "a:b" of its
\* two individuals, a the smaller in string order, whichever side of the line
\* each was on; no two keys stand for the same two individuals; every line
\* read on is under that key; and with a user u every key has u on a side.
C25_OneKeyPerUnorderedPair ==
    DictReturned =>
        /\ \A key \in DOMAIN Dict : \A i \in 1..Len(Dict[key]) :
              /\ key = KeyOf(Dict[key][i])
              /\ ~StrLess(Hi(Dict[key][i]), Lo(Dict[key][i]))
              /\ DictUser # None =>
                    \/ key = DictUser \o Colon \o Hi(Dict[key][i])
                    \/ key = Lo(Dict[key][i]) \o Colon \o DictUser
        /\ \A k1, k2 \in DOMAIN Dict :
              (\E i \in 1..Len(Dict[k1]), j \in 1..Len(Dict[k2]) :
                  {Dict[k1][i].indivID1, Dict[k1][i].indivID2}
                      = {Dict[k2][j].indivID1, Dict[k2][j].indivID2})
              => k1 = k2
        /\ (DictNomask /\ DictMergeLen <= 0) =>
              \A n \in 1..Len(DictPath) :
                  LineKept(DictPath[n]) =>
                      /\ KeyOf(DictPath[n]) \in DOMAIN Dict
                      /\ \E i \in 1..Len(Dict[KeyOf(DictPath[n])]) :
                            Dict[KeyOf(DictPath[n])][i] = MatchSegment(DictPath[n])

\* the key "A:B" holds a segment read as (A, B) and one read as (B, A), and
\* the key "10:9" a segment read as (9, 10)
C25_Witness ==
    /\ DictReturned
    /\ IdA \o Colon \o IdB \in DOMAIN Dict
    /\ \E i, j \in 1..Len(Dict[IdA \o Colon \o IdB]) :
          /\ Dict[IdA \o Colon \o IdB][i].indivID1 = IdA
          /\ Dict[IdA \o Colon \o IdB][j].indivID1 = IdB
    /\ Id10 \o Colon \o Id9 \in DOMAIN Dict
    /\ Dict[Id10 \o Colon \o Id9][1].indivID1 = Id9

\* with the user A the pair of 9 and 10 is left out, and two keys remain
C25_WitnessUser ==
    /\ DictReturned
    /\ DictUser = IdA
    /\ \E n \in 1..Len(DictPath) : DictPath[n].indivID1 = Id9
    /\ DOMAIN Dict = {IdA \o Colon \o IdB, IdA \o Colon \o IdC}

\* masked on, a file with a segment on chromosome -1: the key "A:C" holds that
\* segment, read as (C, A), and one read as (A, C)
C25_WitnessBelowZero ==
    /\ DictReturned
    /\ ~DictNomask
    /\ IdA \o Colon \o IdC \in DOMAIN Dict
    /\ \E i, j \in 1..Len(Dict[IdA \o Colon \o IdC]) :
          /\ Dict[IdA \o Colon \o IdC][i].chrom = -1
          /\ Dict[IdA \o Colon \o IdC][i].indivID1 = IdC
          /\ Dict[IdA \o Colon \o IdC][j].indivID1 = IdA

\* C29: every list of get_pair_dict's result is non-empty, ascending in
\* length and without a length below t, for every t >= 0, with and without
\* masking and merging: what it hands to the estimator meets the
\* preconditions of estimate_relation and of Background.LL.
C29_PairListsMeetPreconditions ==
    DictReturned =>
        \A key \in DOMAIN Dict :
            LET seg_list == Dict[key]
            IN /\ Len(seg_list) >= 1
               /\ \A i \in 1..(Len(seg_list) - 1) :
                     FloatCmp(seg_list[i].length, seg_list[i + 1].length) <= 0
               /\ \A i \in 1..Len(seg_list) : FloatCmp(seg_list[i].length, DictT) >= 0
               /\ SortedCheck(Lengths(seg_list))
               /\ LengthsAboveT([t |-> DictT], Lengths(seg_list))

\* a pair read longest segment first comes out shortest first, and a pair
\* whose only segment lies inside a masked region is left out
C29_Witness ==
    /\ DictReturned
    /\ ~DictNomask
    /\ DictPath = <<MatchLine(IdA, IdB, 1, 100, 200, 300, "cM"),
                    MatchLine(IdB, IdA, 1, 202, 300, 250, "cM"),
                    MatchLine(IdA, IdC, 9, 38293483, 72605261, 629, "cM")>>
    /\ DOMAIN Dict = {IdA \o Colon \o IdB}
    /\ Lengths(Dict[IdA \o Colon \o IdB]) = <<FloatOfCenti(250), FloatOfCenti(300)>>

\* at t = 0 a segment masked down to length 0 stays
C29_WitnessZero ==
    /\ DictReturned
    /\ DictT = FloatZero
    /\ IdA \o Colon \o IdC \in DOMAIN Dict
    /\ Dict[IdA \o Colon \o IdC][1].length = FloatZero

\* a segment on chromosome -1 is masked with the region of chromosome 22, the
\* last entry of the table: read first with 30 cM, it comes out second with
\* 30 - 20.82 cM, behind a segment masked down to 0
C29_WitnessBelowZero ==
    /\ DictReturned
    /\ ~DictNomask
    /\ DictT = FloatZero
    /\ DictPath = <<MatchLine(IdC, IdA, -1, 15000000, 27000000, 3000, "cM"),
                    MatchLine(IdA, IdC, 9, 38293483, 72605261, 629, "cM")>>
    /\ DOMAIN Dict = {IdA \o Colon \o IdC}
    /\ Lengths(Dict[IdA \o Colon \o IdC])
          = <<FloatZero, FloatSub(FloatOfCenti(3000), FloatOfCenti(2082))>>
    /\ Dict[IdA \o Colon \o IdC][2].chrom = -1

\* the estimates of g the claim keeps, in the order of g
RECURSIVE KeptAsClaimed(_, _)
KeptAsClaimed(args, g) ==
    IF g = <<>> THEN <<>>
    ELSE (IF YieldedNotNone(args, g[1].est, g[1].seg_list)
          THEN <<g[1]>> ELSE <<>>)
         \o KeptAsClaimed(args, Tail(g))

\* the elements of g the generator has taken so far
TakenOfG == SubSeq(LastCall.args[2], 1, LastCall.taken)

\* C28: filter_estimates yields, in input order, every estimate with
\* reject=True, and an insignificant estimate exactly when keep_insignificant
\* is set, or insig_threshold is not None and the total cM is at least
\* insig_threshold, or keep_insig_by_seg=(n, l) is set and more than n
\* segments are longer than l: at every point of the iteration the consumer
\* has received those of the elements taken from g
C28_FilterKeepsAsDocumented ==
    CalledLast("filter_estimates")
        => LastCall.result.val = KeptAsClaimed(LastCall.args[1], TakenOfG)

\* the options of C28 other than a threshold of zero behave as claimed: a
\* significant estimate is always yielded, and the thresholds 11 and 12.5
\* and the segment counts decide the insignificant ones
C28_NonZeroThresholdAsClaimed ==
    CalledLast("filter_estimates")
        /\ LastCall.args[1].insig_threshold # Some(FloatZero)
        => /\ LastCall.result.val = KeptAsClaimed(LastCall.args[1], TakenOfG)
           /\ LastCall.state = "exhausted" => LastCall.taken = Len(LastCall.args[2])


\* the results of the tables that are not deleted and hold the two
\* individuals, on either side
LiveResults(tb, indv1, indv2) ==
    {k \in 1..Len(tb.result) :
        /\ ~tb.result[k].deleted
        /\ {tb.result[k].indv1, tb.result[k].indv2} = {indv1, indv2}}

\* C26: Database.insert soft-deletes the results of each inserted pair that
\* are not deleted before it inserts the new ones: a call of insert marks
\* every result of each of its pairs that was not deleted as deleted and
\* leaves the pair exactly one result that is not deleted, the new one
C26_InsertSupersedesPair ==
    [][body'.last = "insert" /\ body'.calls = body.calls + 1
        => \A i \in 1..Len(body'.args) :
              LET before == LiveResults(tables, body'.args[i].indv1,
                                        body'.args[i].indv2)
                  after == LiveResults(tables', body'.args[i].indv1,
                                       body'.args[i].indv2)
              IN /\ \A k \in before : tables'.result[k].deleted
                 /\ Cardinality(after) = 1
                 /\ after \cap before = {}]_vars

\* what delete() must leave of the tables pre and return as n: the results
\* not marked deleted, the likelihoods and segments of no removed result, and
\* the numbers of rows gone from each table
DeletedExactly(pre, post, n) ==
    LET removed == {pre.result[k].id : k \in {j \in 1..Len(pre.result) :
                                                pre.result[j].deleted}}
    IN /\ \A k \in 1..Len(post.result) : ~post.result[k].deleted
       /\ post.result = SelectSeq(pre.result, LAMBDA r : ~r.deleted)
       /\ post.likelihood
            = SelectSeq(pre.likelihood, LAMBDA r : r.result_id \notin removed)
       /\ post.segment
            = SelectSeq(pre.segment, LAMBDA r : r.result_id \notin removed)
       /\ n.r = Len(pre.result) - Len(post.result)
       /\ n.l = Len(pre.likelihood) - Len(post.likelihood)
       /\ n.s = Len(pre.segment) - Len(post.segment)

\* C27: after Database.delete() no result marked deleted remains, no
\* likelihood or segment refers to a removed result, every row of a result
\* that was not deleted is unchanged, and the counts returned are the rows
\* removed from each table, for one batch of keys and for more than one
C27_DeleteRemovesSoftDeleted ==
    [][body'.last = "delete" /\ body'.calls = body.calls + 1
        => DeletedExactly(tables, tables', body'.ret[1])]_vars

\* a delete of more than one batch of keys has returned, with a result left
C27_Witness ==
    /\ body.last = "delete"
    /\ body.ret[1].r > DeleteBatch
    /\ body.ret[1].l = body.ret[1].r
    /\ Len(tables.result) = 1

\* a delete of one batch has returned: two results of three removed
C27_WitnessOneBatch ==
    /\ body.last = "delete"
    /\ body.ret[1] = [r |-> 2, l |-> 4, s |-> 4]
    /\ Len(tables.result) = 1
    /\ Len(tables.likelihood) = 2

\* C30: on leaving a DbManager context the transaction is committed exactly
\* when the body raised no exception and rolled back otherwise, the
\* connection is closed in both cases, and the committed tables change at no
\* other step
C30_CommitOnlyOnCleanExit ==
    [][/\ stored' # stored => trans = "active" /\ trans' = "committed"
       /\ trans = "active" /\ trans' # "active"
            => /\ conn' = "closed"
               /\ IF body.exc = ""
                  THEN trans' = "committed" /\ stored' = tables
                  ELSE trans' = "rolled back" /\ stored' = stored]_vars

\* a context left after a soft_delete that marked a result and an insert
\* that raised: the transaction rolled back, the connection closed, the
\* result in the database not deleted as before
C30_Witness ==
    /\ conn = "closed"
    /\ trans = "rolled back"
    /\ body.calls = 2
    /\ body.last = "insert"
    /\ body.exc = "AttributeError"
    /\ Len(stored.result) = 1
    /\ ~stored.result[1].deleted

\* a context left without an exception: the mark of the soft_delete committed
C30_WitnessCommitted ==
    /\ conn = "closed"
    /\ trans = "committed"
    /\ body.last = "soft_delete"
    /\ body.ret = Some(1)
    /\ body.exc = ""
    /\ Len(stored.result) = 1
    /\ stored.result[1].deleted


====
